---- MODULE Spec2Model ----
(***************************************************************************)
(* A model of the data-provider aggregation layer of Ghostfolio:           *)
(*   - DataProviderService.getQuotes (cache-or-fetch, premium gating,      *)
(*     per-provider chunking, derived currencies, intraday persistence),   *)
(*   - DataProviderService.getHistoricalRaw and search,                    *)
(*   - the rate-limited endpoints of GhostfolioController.                 *)
(* Symbols are modelled as sequences of tokens, so that the template       *)
(* literal `${DEFAULT_CURRENCY}${currency}` is a concatenation and         *)
(* getCurrencyFromSymbol is a removal of the first DEFAULT_CURRENCY token. *)
(***************************************************************************)
EXTENDS Integers, Sequences, FiniteSets, TLC

VARIABLES
  \* ---- configuration and long-lived state of DataProviderService
  featureSubscription,   \* configurationService.get('ENABLE_FEATURE_SUBSCRIPTION')
  dataProviderMapping,   \* this.dataProviderMapping (onModuleInit)
  cache,                 \* the Redis store behind redisCacheService, by quote key
  \* ---- one getQuotes call in flight
  pc,                    \* "idle" | "waiting" | "resolved" | "rejected"
  call,                  \* the arguments of the call: items, useCache, user
  response,              \* the local object `response`
  itemsToFetch,          \* the local list `itemsToFetch`
  requests,              \* the chunk requests pushed to `promises`, with their state
  cacheReads,            \* the redisCacheService.get calls of this call: key, answer
  served,                \* (item, value) pairs assigned to response from the cache
  cacheWrites,           \* arguments of the redisCacheService.set calls of this call
  updateManyData,        \* records handed to marketDataService.updateMany in this
                         \* call, each with the quote it was made from
  calls,                 \* number of getQuotes calls that have returned
  sent,                  \* number of provider requests sent so far
  \* ---- the Ghostfolio data-provider gateway (GhostfolioController)
  dailyRequests,         \* the stored dataProviderGhostfolioDailyRequests of the user
  gateway,               \* the HTTP requests of the day, each with its progress
  \* ---- one getHistoricalRaw call
  historical,            \* its position, arguments, provider requests and result
  \* ---- one search call, and the configuration it reads
  search,                \* its position, arguments, provider requests and result
  \* ---- one getHistorical call
  marketData,            \* its position, arguments, database query and response
  \* ---- one getAssetProfiles call
  assetProfiles,         \* its position, arguments, provider requests and response
  \* ---- one getDataProvider call
  lookup,                \* its argument and what it returned or threw
  \* ---- one getDataSources call
  sources                \* its arguments and the list it returned

qvars == <<featureSubscription, dataProviderMapping, cache, pc, call, response,
           itemsToFetch, requests, cacheReads, served, cacheWrites,
           updateManyData, calls, sent>>

gvars == <<dailyRequests, gateway>>

hvars == <<historical>>

svars == <<search>>

mvars == <<marketData>>

avars == <<assetProfiles>>

pvars == <<lookup>>

dvars == <<sources>>

xvars == <<mvars, avars, pvars, dvars>>

vars == <<qvars, gvars, hvars, svars, xvars>>

-----------------------------------------------------------------------------
(* Bounds of the model *)

\* longest `items` list passed to getQuotes
MaxItems == 2
\* number of getQuotes calls in one behaviour
MaxCalls == 2
\* number of provider requests in one behaviour
MaxRequests == 2
\* what the rate-limited provider answers for getMaxNumberOfSymbolsPerRequest()
MaxSymbolsYahoo == 1
\* what ghostfolioService.getMaxDailyRequests() answers
MaxDailyRequests == 1
\* number of HTTP requests of one user to the gateway in one day
MaxGatewayRequests == 3
\* longest list of assetProfileIdentifiers passed to getHistoricalRaw
MaxIdentifiers == 2
\* number of days between `from` and `to`
MaxDays == 2

-----------------------------------------------------------------------------
(* Constants of @ghostfolio/common/config and helpers of common/helper *)

DEFAULT_CURRENCY == "USD"

DERIVED_CURRENCIES ==
  << [currency |-> "GBp", factor |-> 100, rootCurrency |-> "GBP"],
     [currency |-> "ILA", factor |-> 100, rootCurrency |-> "ILS"],
     [currency |-> "ZAc", factor |-> 100, rootCurrency |-> "ZAR"] >>

CACHE_QUOTES_TTL == "CACHE_QUOTES_TTL"

\* the ISO currency codes the model uses
Currencies == {"USD", "GBP", "ILS", "ZAR", "EUR"}

\* `${a}${b}`
Template(a, b) == <<a, b>>

Range(s) == {s[i] : i \in DOMAIN s}

RECURSIVE RemoveFirst(_, _)
RemoveFirst(s, tok) ==
  IF s = <<>> THEN <<>>
  ELSE IF Head(s) = tok THEN Tail(s)
  ELSE <<Head(s)>> \o RemoveFirst(Tail(s), tok)

\* aSymbol.replace(DEFAULT_CURRENCY, '')
getCurrencyFromSymbol(symbol) == RemoveFirst(symbol, DEFAULT_CURRENCY)

isDerivedCurrency(aCurrency) ==
  \/ aCurrency = <<"USX">>
  \/ \E i \in DOMAIN DERIVED_CURRENCIES :
       aCurrency = <<DERIVED_CURRENCIES[i].currency>>

isCurrency(aCurrency) ==
  \/ Len(aCurrency) = 1 /\ aCurrency[1] \in Currencies
  \/ isDerivedCurrency(aCurrency)

\* `${DEFAULT_CURRENCY}${rootCurrency}` and `${DEFAULT_CURRENCY}${currency}` of
\* the d-th entry of DERIVED_CURRENCIES
RootSymbol(d) == Template(DEFAULT_CURRENCY, DERIVED_CURRENCIES[d].rootCurrency)
DerivedSymbol(d) == Template(DEFAULT_CURRENCY, DERIVED_CURRENCIES[d].currency)

USDUSX == Template(DEFAULT_CURRENCY, "USX")
USDGBP == Template(DEFAULT_CURRENCY, "GBP")
USDGBp == Template(DEFAULT_CURRENCY, "GBp")
AAPL == <<"AAPL">>

\* the symbols that the provider callback of getQuotes skips
SkippedSymbols ==
  {Template(DEFAULT_CURRENCY, DERIVED_CURRENCIES[i].currency) :
     i \in DOMAIN DERIVED_CURRENCIES} \cup {USDUSX}

-----------------------------------------------------------------------------
(* Data providers (the injected DataProviderInterfaces) *)

dataProviderInterfaces == <<"FINANCIAL_MODELING_PREP", "GHOSTFOLIO", "YAHOO">>

DataSources == Range(dataProviderInterfaces)

\* getDataProviderInfo().isPremium
IsPremium(provider) == provider = "FINANCIAL_MODELING_PREP"

\* Number.MAX_SAFE_INTEGER (any value above every list length acts alike)
MAX_SAFE_INTEGER == 2147483647

\* dataProvider.getMaxNumberOfSymbolsPerRequest?.() ?? Number.MAX_SAFE_INTEGER
MaximumNumberOfSymbolsPerRequest(provider) ==
  IF provider = "YAHOO" THEN MaxSymbolsYahoo ELSE MAX_SAFE_INTEGER

DATA_SOURCE_EXCHANGE_RATES == "YAHOO"

getDataSourceForExchangeRates == DATA_SOURCE_EXCHANGE_RATES

NoProvider == "No data provider has been found."

RECURSIVE GetDataProviderFrom(_, _)
GetDataProviderFrom(i, providerName) ==
  IF i > Len(dataProviderInterfaces) THEN NoProvider
  ELSE LET name == dataProviderInterfaces[i]
       IN IF /\ name \in DOMAIN dataProviderMapping
             /\ dataProviderMapping[name] \in DataSources
          THEN dataProviderMapping[name]
          ELSE IF name = providerName THEN name
          ELSE GetDataProviderFrom(i + 1, providerName)

getDataProvider(providerName) == GetDataProviderFrom(1, providerName)

-----------------------------------------------------------------------------
(* Quotes, the cache and the response object *)

Users == {"NoUser", "Basic", "Premium"}

\* a marketPrice is a number or is missing (undefined / null)
Num(n) == [num |-> TRUE, val |-> n]
NoPrice == [num |-> FALSE, val |-> 0]
isNumber(p) == p.num

Quote(c, ds, p, st) ==
  [currency |-> c, dataSource |-> ds, marketPrice |-> p, marketState |-> st]

ItemPool ==
  { [dataSource |-> "YAHOO", symbol |-> USDGBP],
    [dataSource |-> "YAHOO", symbol |-> USDGBp],
    [dataSource |-> "YAHOO", symbol |-> USDUSX],
    [dataSource |-> "YAHOO", symbol |-> AAPL],
    [dataSource |-> "FINANCIAL_MODELING_PREP", symbol |-> AAPL],
    [dataSource |-> "FINANCIAL_MODELING_PREP", symbol |-> USDGBP] }

Symbols == {it.symbol : it \in ItemPool}

ItemLists == UNION {[1..n -> ItemPool] : n \in 1..MaxItems}

\* redisCacheService.getQuoteKey({ dataSource, symbol })
getQuoteKey(dataSource, symbol) == [dataSource |-> dataSource, symbol |-> symbol]

QuoteKeys == {getQuoteKey(ds, s) : ds \in DataSources, s \in Symbols}

\* what redis get answers for a key that is not set
NoEntry == [kind |-> "null"]
\* a cache entry: the stored string and the time-to-live it was set with
Entry(str, ttl) == [str |-> str, ttl |-> ttl]
Unset == Entry(NoEntry, "none")
\* a string that JSON.parse rejects
Garbage == [kind |-> "garbage"]
\* JSON.stringify of a quote: a missing marketPrice is left out of the text
stringify(q) == [kind |-> "json", val |-> q]
\* JSON.parse
parses(str) == str.kind = "json"
parse(str) == str.val

EmptyResponse == [s \in {} |-> NoEntry]

Put(obj, k, v) == [x \in DOMAIN obj \cup {k} |-> IF x = k THEN v ELSE obj[x]]

USXQuote == Quote("USX", getDataSourceForExchangeRates, Num(100), "open")


-----------------------------------------------------------------------------
(* getQuotes: the cache phase (the loop over `items`) *)

hasUSX(items) == \E i \in DOMAIN items : items[i].symbol = USDUSX

\* a faulty variant of CacheStep: the cache is consulted whatever useCache is
CacheStep_ignoresUseCache(st, item, useCache) ==
  LET key == getQuoteKey(item.dataSource, item.symbol)
      quoteString == cache[key].str
      hit == quoteString.kind # "null" /\ parses(quoteString)
      rd == st.reads \cup {[key |-> key, str |-> quoteString]}
  IN IF hit
     THEN [st EXCEPT !.response = Put(st.response, item.symbol, parse(quoteString)),
                     !.reads = rd,
                     !.served = st.served \cup
                        {[item |-> item, value |-> parse(quoteString)]}]
     ELSE [st EXCEPT !.itemsToFetch = Append(st.itemsToFetch, item),
                     !.reads = rd]

\* One iteration of `for (const { dataSource, symbol } of items)`; st holds
\* response, itemsToFetch and the history of reads and served values.
CacheStep(st, item, useCache) ==
  LET key == getQuoteKey(item.dataSource, item.symbol)
      quoteString == cache[key].str
      hit == /\ useCache
             /\ quoteString.kind # "null"
             /\ parses(quoteString)
      rd == IF useCache
            THEN st.reads \cup {[key |-> key, str |-> quoteString]}
            ELSE st.reads
  IN IF hit
     THEN [st EXCEPT !.response = Put(st.response, item.symbol, parse(quoteString)),
                     !.reads = rd,
                     !.served = st.served \cup
                        {[item |-> item, value |-> parse(quoteString)]}]
     ELSE [st EXCEPT !.itemsToFetch = Append(st.itemsToFetch, item),
                     !.reads = rd]

RECURSIVE CacheLoop(_, _, _, _)
CacheLoop(st, items, i, useCache) ==
  IF i > Len(items) THEN st
  ELSE CacheLoop(CacheStep(st, items[i], useCache), items, i + 1, useCache)

CachePhase(items, useCache) ==
  CacheLoop([response |-> IF hasUSX(items)
                          THEN Put(EmptyResponse, USDUSX, USXQuote)
                          ELSE EmptyResponse,
             itemsToFetch |-> <<>>,
             reads |-> {},
             served |-> {}],
            items, 1, useCache)

-----------------------------------------------------------------------------
(* getQuotes: grouping, filtering and chunking *)

RECURSIVE FirstAppearance(_, _)
\* the keys of groupBy(itemsToFetch, dataSource), in insertion order
FirstAppearance(items, seen) ==
  IF items = <<>> THEN <<>>
  ELSE IF Head(items).dataSource \in seen
       THEN FirstAppearance(Tail(items), seen)
       ELSE <<Head(items).dataSource>> \o
            FirstAppearance(Tail(items), seen \cup {Head(items).dataSource})

RECURSIVE SelectSymbols_premiumFirst(_, _, _, _)
\* a faulty variant of SelectSymbols: the test of the premium provider comes
\* before the test of the currency
SelectSymbols_premiumFirst(items, dataSource, dataProvider, user) ==
  IF items = <<>> THEN <<>>
  ELSE LET symbol == Head(items).symbol
           rest == SelectSymbols_premiumFirst(Tail(items), dataSource,
                                              dataProvider, user)
           keep ==
             IF /\ IsPremium(dataProvider)
                /\ featureSubscription
                /\ user = "Basic"
             THEN FALSE
             ELSE IF isCurrency(getCurrencyFromSymbol(symbol))
                  THEN ~isDerivedCurrency(getCurrencyFromSymbol(symbol))
                  ELSE TRUE
       IN IF Head(items).dataSource = dataSource /\ keep
          THEN <<symbol>> \o rest
          ELSE rest

RECURSIVE SelectSymbols(_, _, _, _)
\* the items of one group that pass the filter, mapped to their symbols
SelectSymbols(items, dataSource, dataProvider, user) ==
  IF items = <<>> THEN <<>>
  ELSE LET symbol == Head(items).symbol
           rest == SelectSymbols(Tail(items), dataSource, dataProvider, user)
           keep ==
             IF isCurrency(getCurrencyFromSymbol(symbol))
             THEN ~isDerivedCurrency(getCurrencyFromSymbol(symbol))
             ELSE IF /\ IsPremium(dataProvider)
                     /\ featureSubscription
                     /\ user = "Basic"
                  THEN FALSE
                  ELSE TRUE
       IN IF Head(items).dataSource = dataSource /\ keep
          THEN <<symbol>> \o rest
          ELSE rest

Min(a, b) == IF a < b THEN a ELSE b

\* symbols.slice(i, j), zero-based, end exclusive
slice(symbols, i, j) == SubSeq(symbols, i + 1, Min(j, Len(symbols)))

RECURSIVE ChunksFrom_inclusiveEnd(_, _, _)
\* a faulty variant of ChunksFrom: the end of the slice is taken inclusive
ChunksFrom_inclusiveEnd(symbols, i, max) ==
  IF i >= Len(symbols) THEN <<>>
  ELSE <<slice(symbols, i, IF max >= Len(symbols) THEN max ELSE i + max + 1)>> \o
       (IF max >= Len(symbols) - i THEN <<>>
        ELSE ChunksFrom_inclusiveEnd(symbols, i + max, max))

RECURSIVE ChunksFrom(_, _, _)
\* for (let i = 0; i < symbols.length; i += maximumNumberOfSymbolsPerRequest)
ChunksFrom(symbols, i, max) ==
  IF i >= Len(symbols) THEN <<>>
  ELSE <<slice(symbols, i, i + max)>> \o
       \* (the test keeps i + max within 32-bit integers when max is
       \* MAX_SAFE_INTEGER: the loop ends there, as i + max >= symbols.length)
       (IF max >= Len(symbols) - i THEN <<>>
        ELSE ChunksFrom(symbols, i + max, max))

NoResult == [s \in {} |-> NoEntry]

RECURSIVE ChunkRequests(_, _, _)
ChunkRequests(dataSource, dataProvider, chunks) ==
  IF chunks = <<>> THEN <<>>
  ELSE << [dataSource |-> dataSource,
           dataProvider |-> dataProvider,
           symbols |-> Head(chunks),
           state |-> "sent",
           result |-> NoResult] >> \o
       ChunkRequests(dataSource, dataProvider, Tail(chunks))

RECURSIVE BuildRequests(_, _, _)
\* the loop over Object.entries(itemsGroupedByDataSource)
BuildRequests(groups, toFetch, user) ==
  IF groups = <<>> THEN <<>>
  ELSE LET dataSource == Head(groups)
           dataProvider == getDataProvider(dataSource)
           symbols == SelectSymbols(toFetch, dataSource, dataProvider, user)
           max == MaximumNumberOfSymbolsPerRequest(dataProvider)
       IN ChunkRequests(dataSource, dataProvider, ChunksFrom(symbols, 0, max)) \o
          BuildRequests(Tail(groups), toFetch, user)


-----------------------------------------------------------------------------
(* getQuotes: what a provider may answer, and the callback on its answer *)

\* the quotes a provider answers with: open with a price, open at 0, closed
ProviderQuoteKinds == {<<2, "open">>, <<0, "open">>, <<2, "closed">>}

QuoteCurrency(symbol) ==
  IF isCurrency(getCurrencyFromSymbol(symbol))
  THEN getCurrencyFromSymbol(symbol)[1]
  ELSE DEFAULT_CURRENCY

\* a provider may add the derived currency of a root currency it was asked for
DerivedOf(symbols) ==
  {Template(DEFAULT_CURRENCY, DERIVED_CURRENCIES[i].currency) :
     i \in {j \in DOMAIN DERIVED_CURRENCIES :
              Template(DEFAULT_CURRENCY, DERIVED_CURRENCIES[j].rootCurrency)
                \in symbols}}

ProviderQuotes(dataProvider, symbol) ==
  IF symbol \in SkippedSymbols
  THEN {Quote(QuoteCurrency(symbol), dataProvider, Num(7), "open")}
  ELSE {Quote(QuoteCurrency(symbol), dataProvider, Num(k[1]), k[2]) :
          k \in ProviderQuoteKinds}

RECURSIVE AnswersFor(_, _)
\* the objects that map every key of K to a quote the provider may give for it
AnswersFor(dataProvider, K) ==
  IF K = {} THEN {EmptyResponse}
  ELSE LET k == CHOOSE x \in K : TRUE
       IN {Put(f, k, q) : f \in AnswersFor(dataProvider, K \ {k}),
                          q \in ProviderQuotes(dataProvider, k)}

\* the answers to a request: quotes for some of the symbols asked for and,
\* at will, for the derived currencies of the root currencies answered
ProviderResults(req) ==
  LET asked == Range(req.symbols)
      keys == UNION { {K \cup E : E \in SUBSET DerivedOf(K)} : K \in SUBSET asked }
  IN UNION {AnswersFor(req.dataProvider, K) : K \in keys}

\* a faulty variant of BigMul: the factor is added
BigMul_plus(a, b) == a + b

\* new Big(a).mul(b).toNumber()
BigMul(a, b) == a * b

\* redisCacheService.set(key, value, ttl)
CacheSet(c, key, value, ttl) == [c EXCEPT ![key] = Entry(value, ttl)]

RECURSIVE DeriveLoop(_, _, _, _, _)
\* for (const { currency, factor, rootCurrency } of DERIVED_CURRENCIES)
DeriveLoop(st, i, symbol, result, dataSource) ==
  IF i > Len(DERIVED_CURRENCIES) THEN st
  ELSE LET d == DERIVED_CURRENCIES[i]
           root == Template(DEFAULT_CURRENCY, d.rootCurrency)
           derived == Template(DEFAULT_CURRENCY, d.currency)
           q == [result[symbol] EXCEPT
                   !.currency = d.currency,
                   !.marketPrice =
                      Num(BigMul(result[root].marketPrice.val, d.factor)),
                   !.marketState = "open"]
           key == getQuoteKey(dataSource, derived)
       IN IF symbol = root
          THEN DeriveLoop(
                 [st EXCEPT
                    !.response = Put(st.response, derived, q),
                    !.cache = CacheSet(st.cache, key, stringify(q), CACHE_QUOTES_TTL),
                    !.writes = st.writes \cup
                       {[key |-> key, value |-> q, ttl |-> CACHE_QUOTES_TTL]}],
                 i + 1, symbol, result, dataSource)
          ELSE DeriveLoop(st, i + 1, symbol, result, dataSource)

\* a faulty variant of ResultStep: the quote is cached only for calls that
\* use the cache
ResultStep_cachesOnlyWithUseCache(st, symbol, result, dataSource) ==
  IF symbol \in SkippedSymbols THEN st
  ELSE LET key == getQuoteKey(dataSource, symbol)
           st1 == [st EXCEPT
                     !.response = Put(st.response, symbol, result[symbol]),
                     !.cache = IF call.useCache
                               THEN CacheSet(st.cache, key,
                                             stringify(result[symbol]),
                                             CACHE_QUOTES_TTL)
                               ELSE st.cache,
                     !.writes = IF call.useCache
                                THEN st.writes \cup
                                       {[key |-> key, value |-> result[symbol],
                                         ttl |-> CACHE_QUOTES_TTL]}
                                ELSE st.writes]
       IN DeriveLoop(st1, 1, symbol, result, dataSource)

\* the body of `for (const [symbol, dataProviderResponse] of Object.entries(result))`
ResultStep(st, symbol, result, dataSource) ==
  IF symbol \in SkippedSymbols THEN st
  ELSE LET key == getQuoteKey(dataSource, symbol)
           st1 == [st EXCEPT
                     !.response = Put(st.response, symbol, result[symbol]),
                     !.cache = CacheSet(st.cache, key, stringify(result[symbol]),
                                        CACHE_QUOTES_TTL),
                     !.writes = st.writes \cup
                        {[key |-> key, value |-> result[symbol],
                          ttl |-> CACHE_QUOTES_TTL]}]
       IN DeriveLoop(st1, 1, symbol, result, dataSource)

RECURSIVE ResultLoop(_, _, _, _)
\* the entries of a result have distinct symbols and write distinct keys, so
\* the order in which they are visited does not show in the outcome
ResultLoop(st, todo, result, dataSource) ==
  IF todo = {} THEN st
  ELSE LET symbol == CHOOSE s \in todo : TRUE
       IN ResultLoop(ResultStep(st, symbol, result, dataSource),
                     todo \ {symbol}, result, dataSource)

\* a faulty variant of Persistable: the market state is not looked at
Persistable_ignoresMarketState(q) ==
  /\ isNumber(q.marketPrice)
  /\ q.marketPrice.val > 0

\* the filter on Object.keys(response) before updateMany
Persistable(q) ==
  /\ isNumber(q.marketPrice)
  /\ q.marketPrice.val > 0
  /\ q.marketState = "open"

\* one element of the `data` argument of marketDataService.updateMany (its
\* date, the start of the current UTC day, is left out)
UpdateManyRecord(resp, s) ==
  [symbol |-> s,
   dataSource |-> resp[s].dataSource,
   marketPrice |-> resp[s].marketPrice,
   state |-> "INTRADAY"]

\* the `data` argument of marketDataService.updateMany, each record with the
\* quote of the response it was made from
UpdateManyArgument(resp) ==
  { [data |-> UpdateManyRecord(resp, s), quote |-> resp[s]] :
      s \in {x \in DOMAIN resp : Persistable(resp[x])} }


-----------------------------------------------------------------------------
(* getQuotes as a state machine: one call at a time, its chunk requests      *)
(* completing in any order                                                   *)

NoCall == [items |-> <<>>, useCache |-> FALSE, user |-> "NoUser"]

\* entries of the store that this service did not write: under the quote key
\* of a share an unparseable string or a JSON text without a marketPrice, and
\* a JSON text of a quote under the quote key of `${DEFAULT_CURRENCY}USX`, a
\* key that getQuotes never sets
ForeignEntries ==
  ({getQuoteKey("YAHOO", AAPL)} \X
     {Garbage, stringify(Quote(DEFAULT_CURRENCY, "YAHOO", NoPrice, "open"))})
  \cup
  {<<getQuoteKey("YAHOO", USDUSX),
     stringify(Quote("USX", "YAHOO", Num(2), "closed"))>>}

ForeignStrings == {e[2] : e \in ForeignEntries}

InitialCaches ==
  {[k \in QuoteKeys |-> Unset]} \cup
  {[k \in QuoteKeys |-> IF k = e[1] THEN Entry(e[2], "none") ELSE Unset] :
     e \in ForeignEntries}

InitQuotes ==
  /\ featureSubscription \in BOOLEAN
  /\ dataProviderMapping = [n \in {} |-> ""]
  /\ cache \in InitialCaches
  /\ pc = "idle"
  /\ call = NoCall
  /\ response = EmptyResponse
  /\ itemsToFetch = <<>>
  /\ requests = <<>>
  /\ cacheReads = {}
  /\ served = {}
  /\ cacheWrites = {}
  /\ updateManyData = {}
  /\ calls = 0
  /\ sent = 0

\* getQuotes up to its `await Promise.all(promises)`: the USX entry, the
\* cache phase, and one provider request per chunk
GetQuotesCall ==
  /\ pc = "idle"
  /\ calls < MaxCalls
  /\ \E items \in ItemLists, useCache \in BOOLEAN, user \in Users :
       LET cp == CachePhase(items, useCache)
           reqs == BuildRequests(FirstAppearance(cp.itemsToFetch, {}),
                                 cp.itemsToFetch, user)
       IN /\ sent + Len(reqs) <= MaxRequests
          /\ call' = [items |-> items, useCache |-> useCache, user |-> user]
          /\ response' = cp.response
          /\ itemsToFetch' = cp.itemsToFetch
          /\ cacheReads' = cp.reads
          /\ served' = cp.served
          /\ requests' = reqs
          /\ sent' = sent + Len(reqs)
  /\ pc' = "waiting"
  /\ cacheWrites' = {}
  /\ updateManyData' = {}
  /\ UNCHANGED <<featureSubscription, dataProviderMapping, cache, calls>>

\* a provider request is fulfilled: the `then` callback runs up to its
\* `await this.marketDataService.updateMany(...)`
ProviderResolve(i) ==
  /\ requests[i].state = "sent"
  /\ \E result \in ProviderResults(requests[i]) :
       LET st == ResultLoop([response |-> response, cache |-> cache,
                             writes |-> cacheWrites],
                            DOMAIN result, result, requests[i].dataSource)
       IN /\ response' = st.response
          /\ cache' = st.cache
          /\ cacheWrites' = st.writes
          /\ updateManyData' = updateManyData \cup UpdateManyArgument(st.response)
          /\ requests' = [requests EXCEPT ![i].state = "persisting",
                                          ![i].result = result]
  /\ UNCHANGED <<featureSubscription, dataProviderMapping, pc, call,
                 itemsToFetch, cacheReads, served, calls, sent>>

\* a provider request fails: Promise.all rejects, and so does getQuotes,
\* while the other requests go on
ProviderReject(i) ==
  /\ requests[i].state = "sent"
  /\ requests' = [requests EXCEPT ![i].state = "rejected"]
  /\ pc' = IF pc = "waiting" THEN "rejected" ELSE pc
  /\ UNCHANGED <<featureSubscription, dataProviderMapping, cache, call, response,
                 itemsToFetch, cacheReads, served, cacheWrites, updateManyData,
                 calls, sent>>

\* updateMany settles; its failure is swallowed by `catch {}`
UpdateManySettle(i) ==
  /\ requests[i].state = "persisting"
  /\ requests' = [requests EXCEPT ![i].state = "done"]
  /\ UNCHANGED <<featureSubscription, dataProviderMapping, cache, pc, call,
                 response, itemsToFetch, cacheReads, served, cacheWrites,
                 updateManyData, calls, sent>>

\* a faulty variant of AllDone: the first fulfilled promise is enough
AllDone_first == \E i \in DOMAIN requests : requests[i].state = "done"

\* every promise of `promises` is fulfilled
AllDone == \A i \in DOMAIN requests : requests[i].state = "done"
AllSettled == \A i \in DOMAIN requests : requests[i].state \in {"done", "rejected"}

\* `await Promise.all(promises)` is over and `return response` runs
GetQuotesResolve ==
  /\ pc = "waiting"
  /\ AllDone
  /\ pc' = "resolved"
  /\ UNCHANGED <<featureSubscription, dataProviderMapping, cache, call, response,
                 itemsToFetch, requests, cacheReads, served, cacheWrites,
                 updateManyData, calls, sent>>

\* the call is over and nothing of it is left running
GetQuotesEnd ==
  /\ pc \in {"resolved", "rejected"}
  /\ AllSettled
  /\ pc' = "idle"
  /\ call' = NoCall
  /\ response' = EmptyResponse
  /\ itemsToFetch' = <<>>
  /\ requests' = <<>>
  /\ cacheReads' = {}
  /\ served' = {}
  /\ cacheWrites' = {}
  /\ updateManyData' = {}
  /\ calls' = calls + 1
  /\ UNCHANGED <<featureSubscription, dataProviderMapping, cache, sent>>


-----------------------------------------------------------------------------
(* The gateway: GhostfolioController, one user, one day *)

RateLimitedEndpoints == {"asset-profile", "dividends", "historical", "lookup", "quotes"}
Endpoints == RateLimitedEndpoints \cup {"status"}

\* a request: its endpoint, its progress, the counter that came with
\* request.user, how far the upstream operation of GhostfolioService got, and
\* the number of calls of incrementDailyRequests made for it
NoRequest ==
  [endpoint |-> "none", state |-> "none", seen |-> 0, upstream |-> "none",
   increments |-> 0]

InitGateway ==
  /\ dailyRequests = 0
  /\ gateway = [r \in 1..MaxGatewayRequests |-> NoRequest]

\* AuthGuard('api-key') loads request.user, with the number of requests
\* that is stored for the user at that moment
Authenticate(r, endpoint) ==
  /\ gateway[r].state = "none"
  /\ \A q \in 1..(r - 1) : gateway[q].state # "none"
  /\ gateway' = [gateway EXCEPT ![r] = [NoRequest EXCEPT
                                          !.endpoint = endpoint,
                                          !.state = "authenticated",
                                          !.seen = dailyRequests]]
  /\ UNCHANGED dailyRequests

\* a faulty variant of the test: the maximum itself is too many
TooManyRequests_atMaximum(seen, maxDailyRequests) == seen >= maxDailyRequests

\* this.request.user.dataProviderGhostfolioDailyRequests > maxDailyRequests
TooManyRequests(seen, maxDailyRequests) == seen > maxDailyRequests

\* the head of a rate-limited handler: 429, or the call of the upstream
\* operation of GhostfolioService
CheckLimit(r) ==
  /\ gateway[r].state = "authenticated"
  /\ gateway[r].endpoint \in RateLimitedEndpoints
  /\ gateway' = IF TooManyRequests(gateway[r].seen, MaxDailyRequests)
                THEN [gateway EXCEPT ![r].state = "429"]
                ELSE [gateway EXCEPT ![r].state = "upstream",
                                     ![r].upstream = "called"]
  /\ UNCHANGED dailyRequests

\* ghostfolioService.incrementDailyRequests({ userId })
incrementDailyRequests(n) == n + 1

\* the upstream operation returns: incrementDailyRequests is called
UpstreamReturns(r) ==
  /\ gateway[r].state = "upstream"
  /\ gateway' = [gateway EXCEPT ![r].state = "incrementing",
                                ![r].upstream = "returned",
                                ![r].increments = @ + 1]
  /\ UNCHANGED dailyRequests

\* a faulty variant of UpstreamThrows: the failed request is counted
UpstreamThrows_counted(r) ==
  /\ gateway[r].state = "upstream"
  /\ gateway' = [gateway EXCEPT ![r].state = "500", ![r].upstream = "threw",
                                ![r].increments = @ + 1]
  /\ dailyRequests' = incrementDailyRequests(dailyRequests)

\* the upstream operation throws: the catch block answers 500
UpstreamThrows(r) ==
  /\ gateway[r].state = "upstream"
  /\ gateway' = [gateway EXCEPT ![r].state = "500", ![r].upstream = "threw"]
  /\ UNCHANGED dailyRequests

\* incrementDailyRequests returns and the handler returns the result
IncrementReturns(r) ==
  /\ gateway[r].state = "incrementing"
  /\ dailyRequests' = incrementDailyRequests(dailyRequests)
  /\ gateway' = [gateway EXCEPT ![r].state = "200"]

\* incrementDailyRequests throws: the catch block answers 500
IncrementThrows(r) ==
  /\ gateway[r].state = "incrementing"
  /\ gateway' = [gateway EXCEPT ![r].state = "500"]
  /\ UNCHANGED dailyRequests

\* a faulty variant of getStatus: the limit of the other endpoints applies
GetStatus_limited(r) ==
  /\ gateway[r].state = "authenticated"
  /\ gateway[r].endpoint = "status"
  /\ gateway' = [gateway EXCEPT ![r].state =
                   IF TooManyRequests(gateway[r].seen, MaxDailyRequests)
                   THEN "429" ELSE "200"]
  /\ UNCHANGED dailyRequests

\* getStatus: return this.ghostfolioService.getStatus({ user })
GetStatus(r) ==
  /\ gateway[r].state = "authenticated"
  /\ gateway[r].endpoint = "status"
  /\ gateway' = [gateway EXCEPT ![r].state = "200"]
  /\ UNCHANGED dailyRequests

\* ghostfolioService.getStatus throws: nothing catches it, the answer is 500
GetStatusThrows(r) ==
  /\ gateway[r].state = "authenticated"
  /\ gateway[r].endpoint = "status"
  /\ gateway' = [gateway EXCEPT ![r].state = "500"]
  /\ UNCHANGED dailyRequests


-----------------------------------------------------------------------------
(* getHistoricalRaw *)

BTC == <<"BTC">>

\* the asset profile identifiers that getHistoricalRaw is called with
IdentifierPool ==
  { [dataSource |-> "YAHOO", symbol |-> USDGBP],
    [dataSource |-> "YAHOO", symbol |-> USDGBp],
    [dataSource |-> "YAHOO", symbol |-> AAPL],
    [dataSource |-> "FINANCIAL_MODELING_PREP", symbol |-> USDGBP],
    [dataSource |-> "FINANCIAL_MODELING_PREP", symbol |-> USDGBp],
    [dataSource |-> "FINANCIAL_MODELING_PREP", symbol |-> BTC],
    [dataSource |-> "YAHOO", symbol |-> BTC] }

IdentifierLists == UNION {[1..n -> IdentifierPool] : n \in 1..MaxIdentifiers}

\* dataProvider.canHandle(symbol)
canHandle(dataProvider, symbol) ==
  ~(dataProvider = "FINANCIAL_MODELING_PREP" /\ symbol = BTC)

hasCurrency(assetProfileIdentifiers, currency) ==
  \E i \in DOMAIN assetProfileIdentifiers :
    /\ assetProfileIdentifiers[i].dataSource = getDataSourceForExchangeRates
    /\ assetProfileIdentifiers[i].symbol = currency

RECURSIVE ReplaceDerived(_, _)
\* for (const { currency, rootCurrency } of DERIVED_CURRENCIES): skip the
\* derived currency, add the root currency
ReplaceDerived(assetProfileIdentifiers, i) ==
  IF i > Len(DERIVED_CURRENCIES) THEN assetProfileIdentifiers
  ELSE LET derived == Template(DEFAULT_CURRENCY, DERIVED_CURRENCIES[i].currency)
           root == Template(DEFAULT_CURRENCY, DERIVED_CURRENCIES[i].rootCurrency)
           NotDerived(id) == id.symbol # derived
       IN IF hasCurrency(assetProfileIdentifiers, derived)
          THEN ReplaceDerived(
                 Append(SelectSeq(assetProfileIdentifiers, NotDerived),
                        [dataSource |-> getDataSourceForExchangeRates,
                         symbol |-> root]),
                 i + 1)
          ELSE ReplaceDerived(assetProfileIdentifiers, i + 1)

\* a faulty variant of uniqWith: equal identifiers are all kept
uniqWith_keepsAll(ids, kept) == kept \o ids

RECURSIVE uniqWith(_, _)
\* uniqWith(ids, same dataSource and symbol): the first of equals is kept
uniqWith(ids, kept) ==
  IF ids = <<>> THEN kept
  ELSE IF \E k \in DOMAIN kept : /\ kept[k].dataSource = Head(ids).dataSource
                                  /\ kept[k].symbol = Head(ids).symbol
       THEN uniqWith(Tail(ids), kept)
       ELSE uniqWith(Tail(ids), Append(kept, Head(ids)))

Days == 1..MaxDays

\* a series is a map from some days to entries with a marketPrice; a provider
\* answer without the symbol leaves `data` undefined
Series(f) == [defined |-> TRUE, at |-> f]
Undefined == [defined |-> FALSE, at |-> [d \in {} |-> NoPrice]]
HistoricalEntries == {[marketPrice |-> Num(3)], [marketPrice |-> NoPrice]}
SeriesSet == UNION {{Series(f) : f \in [D -> HistoricalEntries]} : D \in SUBSET Days}

\* eachDayOfInterval({ start: from, end: to }), each day at 100
USXSeries == Series([d \in Days |-> [marketPrice |-> Num(100)]])

RECURSIVE HistoricalPromises(_)
\* the loop that fills `promises`
HistoricalPromises(ids) ==
  IF ids = <<>> THEN <<>>
  ELSE LET dataSource == Head(ids).dataSource
           symbol == Head(ids).symbol
           dataProvider == getDataProvider(dataSource)
       IN (IF canHandle(dataProvider, symbol)
           THEN IF symbol = USDUSX
                THEN << [dataSource |-> dataSource, dataProvider |-> dataProvider,
                         symbol |-> symbol, state |-> "fulfilled",
                         requested |-> FALSE, data |-> USXSeries] >>
                ELSE << [dataSource |-> dataSource, dataProvider |-> dataProvider,
                         symbol |-> symbol, state |-> "pending",
                         requested |-> TRUE, data |-> Undefined] >>
           ELSE <<>>) \o HistoricalPromises(Tail(ids))

\* a faulty variant of transformHistoricalData: entries without a numeric
\* marketPrice are kept
transformHistoricalData_keepsAll(allData, currency, factor) ==
  LET found == {i \in DOMAIN allData : allData[i].symbol = currency}
      rootData == IF found = {} THEN Undefined
                  ELSE allData[CHOOSE i \in found : \A j \in found : i <= j].data
  IN Series([date \in DOMAIN rootData.at |->
               [marketPrice |->
                  Num(BigMul(factor, rootData.at[date].marketPrice.val))]])

transformHistoricalData(allData, currency, factor) ==
  LET found == {i \in DOMAIN allData : allData[i].symbol = currency}
      \* allData.find(({ symbol }) => symbol === currency)?.data
      rootData == IF found = {} THEN Undefined
                  ELSE allData[CHOOSE i \in found : \A j \in found : i <= j].data
      \* for (const date in rootData): nothing to visit when it is undefined
  IN Series([date \in {d \in DOMAIN rootData.at :
                         isNumber(rootData.at[d].marketPrice)} |->
               [marketPrice |->
                  Num(BigMul(factor, rootData.at[date].marketPrice.val))]])

RECURSIVE HistoricalResult(_, _, _)
\* for (const { data, symbol } of allData)
HistoricalResult(result, allData, i) ==
  IF i > Len(allData) THEN result
  ELSE LET symbol == allData[i].symbol
           found == {d \in DOMAIN DERIVED_CURRENCIES : RootSymbol(d) = symbol}
           withDerived ==
             IF found = {} THEN result
             ELSE LET d == CHOOSE x \in found : \A y \in found : x <= y
                  IN Put(result, DerivedSymbol(d),
                         transformHistoricalData(allData, RootSymbol(d),
                                                 DERIVED_CURRENCIES[d].factor))
       IN HistoricalResult(Put(withDerived, symbol, allData[i].data),
                           allData, i + 1)

\* the error of a rejected promise is named by the place of the promise
NoError == 0

NoHistoricalCall ==
  [pc |-> "idle", assetProfileIdentifiers |-> <<>>, promises |-> <<>>,
   result |-> EmptyResponse, error |-> NoError]

InitHistorical == historical = NoHistoricalCall

\* getHistoricalRaw up to `await Promise.all(promises)`
GetHistoricalRawCall ==
  /\ historical.pc = "idle"
  /\ \E ids \in IdentifierLists :
       historical' =
         [pc |-> "waiting",
          assetProfileIdentifiers |-> ids,
          promises |-> HistoricalPromises(uniqWith(ReplaceDerived(ids, 1), <<>>)),
          result |-> EmptyResponse,
          error |-> NoError]

\* dataProvider.getHistorical answers; `data?.[symbol]` is a series or undefined
HistoricalResolve(i) ==
  /\ historical.pc \in {"waiting", "rejected"}
  /\ historical.promises[i].state = "pending"
  /\ \E data \in SeriesSet \cup {Undefined} :
       historical' = [historical EXCEPT !.promises[i].state = "fulfilled",
                                        !.promises[i].data = data]

\* a faulty variant of HistoricalReject: the error is logged and not thrown
HistoricalReject_swallowed(i) ==
  /\ historical.pc \in {"waiting", "rejected"}
  /\ historical.promises[i].state = "pending"
  /\ historical' = [historical EXCEPT !.promises[i].state = "rejected"]

\* dataProvider.getHistorical fails: Promise.all rejects with the first error
\* and the catch block throws it again
HistoricalReject(i) ==
  /\ historical.pc \in {"waiting", "rejected"}
  /\ historical.promises[i].state = "pending"
  /\ historical' = [historical EXCEPT
                      !.promises[i].state = "rejected",
                      !.pc = "rejected",
                      !.error = IF historical.pc = "waiting" THEN i ELSE @]

\* every promise is fulfilled: the result is built and returned
GetHistoricalRawReturn ==
  /\ historical.pc = "waiting"
  /\ \A i \in DOMAIN historical.promises :
       historical.promises[i].state = "fulfilled"
  /\ historical' =
       [historical EXCEPT
          !.pc = "returned",
          !.result = HistoricalResult(EmptyResponse, historical.promises, 1)]


-----------------------------------------------------------------------------
(* getHistorical *)

\* a Date: a day of the model, or an Invalid Date
ValidDate(d) == [valid |-> TRUE, day |-> d]
InvalidDate == [valid |-> FALSE, day |-> 0]
isValid(date) == date.valid

Granularities == {"day", "month"}

\* the lists of items that getHistorical is called with
HistoricalItemLists == {<<>>} \cup IdentifierLists

isEmpty(aItems) == Len(aItems) = 0

\* rows that the table MarketData may hold; firstOfMonth stands for
\* date_part('day', date) = 1 OR date >= TIMESTAMP 'yesterday'
MarketDataRow(dataSource, symbol, date, marketPrice, firstOfMonth) ==
  [dataSource |-> dataSource, symbol |-> symbol, date |-> date,
   marketPrice |-> marketPrice, firstOfMonth |-> firstOfMonth]

RowPool ==
  { MarketDataRow("YAHOO", AAPL, 1, Num(3), TRUE),
    MarketDataRow("YAHOO", AAPL, 2, Num(4), FALSE),
    MarketDataRow("FINANCIAL_MODELING_PREP", AAPL, 2, Num(5), TRUE),
    MarketDataRow("YAHOO", USDGBP, 1, Num(6), TRUE) }

\* the WHERE clause of queryRaw
Where(row, aItems, aGranularity, from, to) ==
  /\ row.dataSource \in {aItems[i].dataSource : i \in DOMAIN aItems}
  /\ row.symbol \in {aItems[i].symbol : i \in DOMAIN aItems}
  /\ aGranularity = "month" => row.firstOfMonth
  /\ row.date >= from.day
  /\ row.date <= to.day

\* what $queryRawUnsafe(queryRaw) may answer: rows that satisfy the WHERE
\* clause, each once, ORDER BY date
QueryAnswers(aItems, aGranularity, from, to) ==
  LET matching == {row \in RowPool : Where(row, aItems, aGranularity, from, to)}
  IN UNION {{rows \in [1..n -> matching] :
               /\ \A i, j \in 1..n : i < j => /\ rows[i] # rows[j]
                                               /\ rows[i].date <= rows[j].date} :
            n \in 0..Cardinality(matching)}

RECURSIVE ReduceRows(_, _)
\* marketDataByGranularity.reduce(...): r[symbol] = { ...(r[symbol] || {}),
\* [format(new Date(date), DATE_FORMAT)]: { marketPrice } }
ReduceRows(r, rows) ==
  IF rows = <<>> THEN r
  ELSE LET row == Head(rows)
           before == IF row.symbol \in DOMAIN r THEN r[row.symbol]
                     ELSE [d \in {} |-> [marketPrice |-> NoPrice]]
       IN ReduceRows(Put(r, row.symbol,
                         Put(before, row.date, [marketPrice |-> row.marketPrice])),
                     Tail(rows))

NoMarketDataCall ==
  [pc |-> "idle", aItems |-> <<>>, aGranularity |-> "month",
   from |-> InvalidDate, to |-> InvalidDate, query |-> "none",
   rows |-> <<>>, response |-> EmptyResponse]

InitMarketData == marketData = NoMarketDataCall

\* the test before the query
ReturnsAtOnce(aItems, from, to) == isEmpty(aItems) \/ ~isValid(from) \/ ~isValid(to)

\* getHistorical up to its return of the empty response, or up to
\* `await this.prismaService.$queryRawUnsafe(queryRaw)`
GetHistoricalCall ==
  /\ marketData.pc = "idle"
  /\ \E aItems \in HistoricalItemLists, aGranularity \in Granularities,
        from \in {ValidDate(1), InvalidDate},
        to \in {ValidDate(MaxDays), InvalidDate} :
       marketData' =
         [NoMarketDataCall EXCEPT
            !.aItems = aItems, !.aGranularity = aGranularity,
            !.from = from, !.to = to,
            !.pc = IF ReturnsAtOnce(aItems, from, to)
                   THEN "returned" ELSE "querying",
            !.query = IF ReturnsAtOnce(aItems, from, to)
                      THEN "none" ELSE "pending"]

\* the query answers: the rows are reduced into the response, which the
\* finally block returns
QueryReturns ==
  /\ marketData.pc = "querying"
  /\ \E rows \in QueryAnswers(marketData.aItems, marketData.aGranularity,
                               marketData.from, marketData.to) :
       marketData' = [marketData EXCEPT !.pc = "returned",
                                        !.query = "answered",
                                        !.rows = rows,
                                        !.response = ReduceRows(EmptyResponse, rows)]

\* a faulty variant of QueryThrows: the error is thrown again
QueryThrows_rethrown ==
  /\ marketData.pc = "querying"
  /\ marketData' = [marketData EXCEPT !.pc = "rejected", !.query = "failed"]

\* the query fails: the error is logged and the finally block returns the
\* response, which is still empty
QueryThrows ==
  /\ marketData.pc = "querying"
  /\ marketData' = [marketData EXCEPT !.pc = "returned", !.query = "failed"]

\* the caller has the response; the next call may start
GetHistoricalEnd ==
  /\ marketData.pc \in {"returned", "rejected"}
  /\ marketData' = NoMarketDataCall

-----------------------------------------------------------------------------
(* getAssetProfiles *)

\* what a provider's getAssetProfile answers
SymbolProfile(dataProvider, symbol) ==
  [dataSource |-> dataProvider, symbol |-> symbol]

RECURSIVE ProfilesOfGroup(_, _)
\* for (const symbol of symbols): one promise for each item of the group
ProfilesOfGroup(items, dataSource) ==
  IF items = <<>> THEN <<>>
  ELSE (IF Head(items).dataSource = dataSource
        THEN << [dataSource |-> dataSource,
                 dataProvider |-> getDataProvider(dataSource),
                 symbol |-> Head(items).symbol,
                 state |-> "pending"] >>
        ELSE <<>>) \o ProfilesOfGroup(Tail(items), dataSource)

RECURSIVE ProfilePromises(_, _)
\* the loop over Object.entries(itemsGroupedByDataSource)
ProfilePromises(groups, items) ==
  IF groups = <<>> THEN <<>>
  ELSE ProfilesOfGroup(items, Head(groups)) \o ProfilePromises(Tail(groups), items)

\* what the caller of an async function gets
NoOutcome == [kind |-> "none", value |-> EmptyResponse, error |-> NoError]

NoAssetProfilesCall ==
  [pc |-> "idle", items |-> <<>>, promises |-> <<>>, response |-> EmptyResponse,
   outcome |-> NoOutcome]

InitAssetProfiles == assetProfiles = NoAssetProfilesCall

\* getAssetProfiles up to `await Promise.all(promises)`
GetAssetProfilesCall ==
  /\ assetProfiles.pc = "idle"
  /\ \E items \in IdentifierLists :
       assetProfiles' =
         [NoAssetProfilesCall EXCEPT
            !.pc = "waiting",
            !.items = items,
            !.promises = ProfilePromises(FirstAppearance(items, {}), items)]

\* getAssetProfile answers: the `then` callback sets response[symbol]
ProfileResolve(i) ==
  /\ assetProfiles.pc \in {"waiting", "rejected"}
  /\ assetProfiles.promises[i].state = "pending"
  /\ assetProfiles' =
       [assetProfiles EXCEPT
          !.promises[i].state = "fulfilled",
          !.response = Put(@, assetProfiles.promises[i].symbol,
                           SymbolProfile(assetProfiles.promises[i].dataProvider,
                                         assetProfiles.promises[i].symbol))]

\* a faulty variant of ProfileReject: the error is logged and not thrown
ProfileReject_swallowed(i) ==
  /\ assetProfiles.pc \in {"waiting", "rejected"}
  /\ assetProfiles.promises[i].state = "pending"
  /\ assetProfiles' = [assetProfiles EXCEPT !.promises[i].state = "rejected"]

\* getAssetProfile fails: Promise.all rejects with the first error and the
\* catch block throws it again
ProfileReject(i) ==
  /\ assetProfiles.pc \in {"waiting", "rejected"}
  /\ assetProfiles.promises[i].state = "pending"
  /\ assetProfiles' =
       [assetProfiles EXCEPT
          !.promises[i].state = "rejected",
          !.pc = "rejected",
          !.outcome = IF assetProfiles.pc = "waiting"
                      THEN [NoOutcome EXCEPT !.kind = "error", !.error = i]
                      ELSE @]

\* every promise is fulfilled: the response is returned
GetAssetProfilesReturn ==
  /\ assetProfiles.pc = "waiting"
  /\ \A i \in DOMAIN assetProfiles.promises :
       assetProfiles.promises[i].state = "fulfilled"
  /\ assetProfiles' =
       [assetProfiles EXCEPT
          !.pc = "returned",
          !.outcome = [NoOutcome EXCEPT !.kind = "value",
                                        !.value = assetProfiles.response]]

\* the call is over; the next call may start
GetAssetProfilesEnd ==
  /\ assetProfiles.pc \in {"returned", "rejected"}
  /\ assetProfiles' = NoAssetProfilesCall

-----------------------------------------------------------------------------
(* getDataProvider, called on its own *)

\* a data source without a registered DataProviderInterface
MANUAL == "MANUAL"

\* the names getDataProvider is called with, and the names a mapping holds
ProviderNames == DataSources \cup {MANUAL}

\* the values of PROPERTY_DATA_SOURCE_MAPPING that onModuleInit may read
ProviderMappings == UNION {[K -> ProviderNames] : K \in SUBSET ProviderNames}

NoLookup == [providerName |-> "none", result |-> "none"]

InitLookup == lookup = NoLookup

\* getDataProvider(providerName): the provider returned, or the message of
\* the error thrown
GetDataProviderCall ==
  \E providerName \in ProviderNames :
    lookup' = [providerName |-> providerName,
              result |-> getDataProvider(providerName)]


-----------------------------------------------------------------------------
(* getDataSources and search *)

MaxLookupItems == 2

\* the lengths of the query strings that search is called with
QueryLengths == {1, 2}

\* configurationService: DATA_SOURCES, DATA_SOURCES_LEGACY; propertyService:
\* whether PROPERTY_API_KEY_GHOSTFOLIO is set
Configurations ==
  [DATA_SOURCES : {<<"YAHOO">>, <<"YAHOO", "FINANCIAL_MODELING_PREP">>},
   DATA_SOURCES_LEGACY : {<<>>, <<"YAHOO">>},
   ghostfolioApiKey : BOOLEAN]

\* the users that search is called for
SearchUsers ==
  { [role |-> "ADMIN", createdBefore |-> TRUE, subscription |-> "Premium",
     isExperimentalFeatures |-> TRUE],
    [role |-> "USER", createdBefore |-> TRUE, subscription |-> "Basic",
     isExperimentalFeatures |-> TRUE],
    [role |-> "USER", createdBefore |-> TRUE, subscription |-> "Premium",
     isExperimentalFeatures |-> FALSE],
    [role |-> "USER", createdBefore |-> FALSE, subscription |-> "Basic",
     isExperimentalFeatures |-> FALSE] }

hasRole(user, role) == user.role = role

\* Array.prototype.sort() of strings: the order of the data source names,
\* as the pairs <<a, b>> with a not after b
DataSourceOrder ==
  LET sorted == <<"FINANCIAL_MODELING_PREP", "GHOSTFOLIO", "YAHOO">>
  IN {<<a, b>> \in DataSources \X DataSources :
        \E i, j \in DOMAIN sorted : i <= j /\ sorted[i] = a /\ sorted[j] = b}

RECURSIVE InsertSorted(_, _, _)
\* the place of x in a sorted list: before the first element that is after it
InsertSorted(sorted, x, notAfter) ==
  IF sorted = <<>> THEN <<x>>
  ELSE IF <<Head(sorted), x>> \in notAfter
       THEN <<Head(sorted)>> \o InsertSorted(Tail(sorted), x, notAfter)
       ELSE <<x>> \o sorted

RECURSIVE SortFrom(_, _, _)
\* a stable sort
SortFrom(seq, sorted, notAfter) ==
  IF seq = <<>> THEN sorted
  ELSE SortFrom(Tail(seq), InsertSorted(sorted, Head(seq), notAfter), notAfter)

\* a faulty variant of getDataSources: GHOSTFOLIO is always pushed
getDataSources_alwaysGhostfolio(config, includeGhostfolio, user) ==
  LET legacy == /\ ~hasRole(user, "ADMIN")
                /\ user.createdBefore
                /\ Len(config.DATA_SOURCES_LEGACY) > 0
      dataSources == IF legacy THEN config.DATA_SOURCES_LEGACY
                     ELSE config.DATA_SOURCES
  IN SortFrom(Append(dataSources, "GHOSTFOLIO"), <<>>, DataSourceOrder)

getDataSources(config, includeGhostfolio, user) ==
  LET legacy == /\ ~hasRole(user, "ADMIN")
                /\ user.createdBefore   \* isBefore(createdAt, 2025-03-23)
                /\ Len(config.DATA_SOURCES_LEGACY) > 0
      dataSources == IF legacy THEN config.DATA_SOURCES_LEGACY
                     ELSE config.DATA_SOURCES
      pushed == IF includeGhostfolio \/ config.ghostfolioApiKey
                THEN Append(dataSources, "GHOSTFOLIO")
                ELSE dataSources
  IN SortFrom(pushed, <<>>, DataSourceOrder)

\* names are sequences of characters
toLowerCase(name) ==
  LET lower == [c \in {"A", "B", "U", "S", "D"} |->
                  CASE c = "A" -> "a" [] c = "B" -> "b" [] c = "U" -> "u"
                    [] c = "S" -> "s" [] c = "D" -> "d"]
  IN [i \in DOMAIN name |->
        IF name[i] \in DOMAIN lower THEN lower[name[i]] ELSE name[i]]

RECURSIVE localeCompare(_, _)
\* String.prototype.localeCompare of two lower-case names: negative, zero or
\* positive
localeCompare(a, b) ==
  LET weight == [c \in {" ", "a", "b", "d", "s", "u"} |->
                   CASE c = " " -> 0 [] c = "a" -> 1 [] c = "b" -> 2
                     [] c = "d" -> 3 [] c = "s" -> 4 [] c = "u" -> 5]
  IN IF a = <<>> THEN (IF b = <<>> THEN 0 ELSE -1)
     ELSE IF b = <<>> THEN 1
     ELSE IF weight[Head(a)] < weight[Head(b)] THEN -1
     ELSE IF weight[Head(a)] > weight[Head(b)] THEN 1
     ELSE localeCompare(Tail(a), Tail(b))

\* name.replace(new RegExp(` ${DEFAULT_CURRENCY}$`), '')
RemoveDefaultCurrency(name) ==
  LET suffix == <<" ", "U", "S", "D">>
      n == Len(name) - Len(suffix)
  IN IF n >= 0 /\ SubSeq(name, n + 1, Len(name)) = suffix
     THEN SubSeq(name, 1, n)
     ELSE name

LookupItem(symbol, name, currency, assetSubClass, provider) ==
  [symbol |-> symbol, name |-> name, currency |-> currency,
   assetSubClass |-> assetSubClass,
   dataProviderInfo |-> [isPremium |-> IsPremium(provider),
                         dataSource |-> provider,
                         name |-> provider,
                         url |-> "url"]]

\* the items that a provider may answer a search with
LookupPool(provider) ==
  CASE provider = "YAHOO" ->
         {LookupItem("AAPL", <<"b">>, "USD", "STOCK", provider),
          LookupItem("BTCUSD", <<"a", " ", "U", "S", "D">>, "USD",
                     "CRYPTOCURRENCY", provider)}
    [] provider = "FINANCIAL_MODELING_PREP" ->
         {LookupItem("AAPL", <<"A", "b">>, "USD", "STOCK", provider),
          LookupItem("XYZ", <<"a">>, "undefined", "STOCK", provider)}
    [] OTHER ->
         {LookupItem("BTCUSD", <<"B">>, "USD", "CRYPTOCURRENCY", provider)}

\* the answers of dataProviderService.search: `items` may be missing
LookupResponses(provider) ==
  {[defined |-> FALSE, items |-> <<>>]} \cup
  {[defined |-> TRUE, items |-> items] :
     items \in {l \in UNION {[1..n -> LookupPool(provider)] : n \in 0..MaxLookupItems} :
                  \A i, j \in DOMAIN l : i # j => l[i] # l[j]}}

RECURSIVE ConcatItems(_, _)
\* for (const { items } of searchResults)
ConcatItems(searchResults, lookupItems) ==
  IF searchResults = <<>> THEN lookupItems
  ELSE ConcatItems(Tail(searchResults),
                   IF /\ Head(searchResults).answer.defined
                      /\ Len(Head(searchResults).answer.items) > 0
                   THEN lookupItems \o Head(searchResults).answer.items
                   ELSE lookupItems)

\* a faulty variant of the filter: every item passes
SupportedCurrency_all(lookupItem) == lookupItem.currency = lookupItem.currency

\* Only allow symbols with supported currency
SupportedCurrency(lookupItem) == lookupItem.currency # "undefined"

\* the function given to map
MapLookupItem(lookupItem, user) ==
  LET info == lookupItem.dataProviderInfo
      dataProviderInfo ==
        IF featureSubscription
        THEN [isPremium |-> IF user.subscription = "Premium" THEN FALSE
                            ELSE info.isPremium,
              dataSource |-> "undefined",
              name |-> "undefined",
              url |-> "undefined"]
        ELSE [info EXCEPT !.isPremium = FALSE]
      name == IF /\ lookupItem.assetSubClass = "CRYPTOCURRENCY"
                 /\ user.isExperimentalFeatures
              THEN RemoveDefaultCurrency(lookupItem.name)
              ELSE lookupItem.name
  IN [lookupItem EXCEPT !.dataProviderInfo = dataProviderInfo, !.name = name]

\* the function given to sort
NameNotAfter(item1, item2) ==
  localeCompare(toLowerCase(item1.name), toLowerCase(item2.name)) <= 0

FilteredItems(lookupItems, user) ==
  LET filtered == SelectSeq(lookupItems, SupportedCurrency)
      mapped == [i \in DOMAIN filtered |-> MapLookupItem(filtered[i], user)]
  IN SortFrom(mapped, <<>>,
              {<<a, b>> \in Range(mapped) \X Range(mapped) : NameNotAfter(a, b)})

NoSearchUser ==
  [role |-> "USER", createdBefore |-> FALSE, subscription |-> "Basic",
   isExperimentalFeatures |-> FALSE]

NoSearch ==
  [pc |-> "idle", query |-> 0, user |-> NoSearchUser, promises |-> <<>>,
   items |-> <<>>]

DefaultConfiguration ==
  [DATA_SOURCES |-> <<"YAHOO">>, DATA_SOURCES_LEGACY |-> <<>>,
   ghostfolioApiKey |-> FALSE]

InitSearch == search = [config |-> DefaultConfiguration, at |-> NoSearch]

\* search up to `await Promise.all(promises)`, or its early return
SearchCall ==
  /\ search.at.pc = "idle"
  /\ \E query \in QueryLengths, user \in SearchUsers :
       IF query < 2
       THEN search' = [search EXCEPT !.at = [pc |-> "returned", query |-> query,
                                             user |-> user, promises |-> <<>>,
                                             items |-> <<>>]]
       ELSE LET dataSources == getDataSources(search.config, FALSE, user)
                dataProviderServices ==
                  [i \in DOMAIN dataSources |-> getDataProvider(dataSources[i])]
            IN IF \E i \in DOMAIN dataSources : dataProviderServices[i] = NoProvider
               THEN search' = [search EXCEPT !.at = [pc |-> "rejected",
                                                     query |-> query,
                                                     user |-> user,
                                                     promises |-> <<>>,
                                                     items |-> <<>>]]
               ELSE search' =
                      [search EXCEPT !.at =
                         [pc |-> "waiting", query |-> query, user |-> user,
                          promises |->
                            [i \in DOMAIN dataSources |->
                               [dataSource |-> dataSources[i],
                                dataProvider |-> dataProviderServices[i],
                                state |-> "pending",
                                answer |-> [defined |-> FALSE, items |-> <<>>]]],
                          items |-> <<>>]]

\* dataProviderService.search answers
SearchResolve(i) ==
  /\ search.at.pc \in {"waiting", "rejected"}
  /\ search.at.promises[i].state = "pending"
  /\ \E answer \in LookupResponses(search.at.promises[i].dataProvider) :
       search' = [search EXCEPT !.at.promises[i].state = "fulfilled",
                                !.at.promises[i].answer = answer]

\* dataProviderService.search fails: Promise.all rejects, and so does search
SearchReject(i) ==
  /\ search.at.pc \in {"waiting", "rejected"}
  /\ search.at.promises[i].state = "pending"
  /\ search' = [search EXCEPT !.at.promises[i].state = "rejected",
                              !.at.pc = "rejected"]

\* every provider has answered: the items are concatenated, filtered,
\* rewritten, sorted and returned
SearchReturn ==
  /\ search.at.pc = "waiting"
  /\ \A i \in DOMAIN search.at.promises :
       search.at.promises[i].state = "fulfilled"
  /\ search' =
       [search EXCEPT
          !.at.pc = "returned",
          !.at.items = FilteredItems(ConcatItems(search.at.promises, <<>>),
                                     search.at.user)]


-----------------------------------------------------------------------------
(* Specifications *)

\* getQuotes calls, the gateway at rest
-----------------------------------------------------------------------------
(* getDataSources, called on its own *)

\* configurationService and propertyService, as getDataSources reads them
DataSourceConfigurations ==
  [DATA_SOURCES : {<<"YAHOO">>, <<"YAHOO", "FINANCIAL_MODELING_PREP">>,
                   <<"YAHOO", "GHOSTFOLIO">>},
   DATA_SOURCES_LEGACY : {<<>>, <<"YAHOO">>,
                          <<"YAHOO", "FINANCIAL_MODELING_PREP">>},
   ghostfolioApiKey : BOOLEAN]

\* the users that getDataSources is called for
DataSourceUsers ==
  SearchUsers \cup
  { [role |-> "ADMIN", createdBefore |-> FALSE, subscription |-> "Premium",
     isExperimentalFeatures |-> FALSE] }

NoSources ==
  [called |-> FALSE, includeGhostfolio |-> FALSE, user |-> NoSearchUser,
   dataSources |-> <<>>]

InitSources == sources = NoSources

\* getDataSources({ includeGhostfolio, user })
GetDataSourcesCall ==
  \E includeGhostfolio \in BOOLEAN, user \in DataSourceUsers :
    sources' = [called |-> TRUE, includeGhostfolio |-> includeGhostfolio,
                user |-> user,
                dataSources |-> getDataSources(search.config, includeGhostfolio,
                                               user)]

InitOthers ==
  InitMarketData /\ InitAssetProfiles /\ InitLookup /\ InitSources

Init == InitQuotes /\ InitGateway /\ InitHistorical /\ InitSearch /\ InitOthers

Next ==
  \/ GetQuotesCall /\ UNCHANGED <<gvars, hvars, svars, xvars>>
  \/ \E i \in DOMAIN requests : ProviderResolve(i) /\ UNCHANGED <<gvars, hvars, svars, xvars>>
  \/ \E i \in DOMAIN requests : ProviderReject(i) /\ UNCHANGED <<gvars, hvars, svars, xvars>>
  \/ \E i \in DOMAIN requests : UpdateManySettle(i) /\ UNCHANGED <<gvars, hvars, svars, xvars>>
  \/ GetQuotesResolve /\ UNCHANGED <<gvars, hvars, svars, xvars>>
  \/ GetQuotesEnd /\ UNCHANGED <<gvars, hvars, svars, xvars>>

Spec == Init /\ [][Next]_vars

\* the gateway, no getQuotes call
QuotesIdle ==
  /\ cache = [k \in QuoteKeys |-> Unset]
  /\ pc = "idle"
  /\ call = NoCall
  /\ response = EmptyResponse
  /\ itemsToFetch = <<>>
  /\ requests = <<>>
  /\ cacheReads = {}
  /\ served = {}
  /\ cacheWrites = {}
  /\ updateManyData = {}
  /\ calls = 0
  /\ sent = 0

QuotesAtRest ==
  /\ featureSubscription = FALSE
  /\ dataProviderMapping = [n \in {} |-> ""]
  /\ QuotesIdle

GatewayInit == QuotesAtRest /\ InitGateway /\ InitHistorical /\ InitSearch /\ InitOthers

GatewayNext ==
  \/ \E r \in 1..MaxGatewayRequests, e \in Endpoints :
       Authenticate(r, e) /\ UNCHANGED <<qvars, hvars, svars, xvars>>
  \/ \E r \in 1..MaxGatewayRequests : CheckLimit(r) /\ UNCHANGED <<qvars, hvars, svars, xvars>>
  \/ \E r \in 1..MaxGatewayRequests : UpstreamReturns(r) /\ UNCHANGED <<qvars, hvars, svars, xvars>>
  \/ \E r \in 1..MaxGatewayRequests : UpstreamThrows(r) /\ UNCHANGED <<qvars, hvars, svars, xvars>>
  \/ \E r \in 1..MaxGatewayRequests : IncrementReturns(r) /\ UNCHANGED <<qvars, hvars, svars, xvars>>
  \/ \E r \in 1..MaxGatewayRequests : IncrementThrows(r) /\ UNCHANGED <<qvars, hvars, svars, xvars>>
  \/ \E r \in 1..MaxGatewayRequests : GetStatus(r) /\ UNCHANGED <<qvars, hvars, svars, xvars>>
  \/ \E r \in 1..MaxGatewayRequests : GetStatusThrows(r) /\ UNCHANGED <<qvars, hvars, svars, xvars>>

GatewaySpec == GatewayInit /\ [][GatewayNext]_vars

\* the requests of the day that were served successfully by a rate-limited
\* endpoint
ServedSuccessfully ==
  {r \in 1..MaxGatewayRequests :
     gateway[r].state = "200" /\ gateway[r].endpoint \in RateLimitedEndpoints}

\* C1: the number of requests of a user that the rate-limited endpoints serve
\* successfully within one day never exceeds the maximum number of daily
\* requests, also when requests overlap.
C1_ServedWithinDailyMaximum ==
  Cardinality(ServedSuccessfully) <= MaxDailyRequests


\* the requests to rate-limited endpoints that are past the test of the limit
Tested ==
  {r \in 1..MaxGatewayRequests :
     /\ gateway[r].endpoint \in RateLimitedEndpoints
     /\ gateway[r].state \notin {"none", "authenticated"}}

\* C12: a request to a rate-limited endpoint is answered 429 if and only if
\* the dataProviderGhostfolioDailyRequests of its user is above the maximum
\* of daily requests, and a request answered 429 has not called the upstream
\* operation.
C12_RejectedIffAboveMaximum ==
  \A r \in Tested :
    /\ gateway[r].state = "429" <=> gateway[r].seen > MaxDailyRequests
    /\ gateway[r].state = "429" => gateway[r].upstream = "none"
    /\ gateway[r].state # "429" => gateway[r].upstream # "none"

\* C12 (witness): one request came with the counter at the maximum and was
\* served, another came with the counter above it and was answered 429
C12_Witness ==
  \E r, q \in Tested :
    /\ gateway[r].seen = MaxDailyRequests
    /\ gateway[r].state = "200"
    /\ gateway[q].state = "429"

\* C13: for a request to a rate-limited endpoint, incrementDailyRequests is
\* called once when the upstream operation has returned and not otherwise
\* (not before it returns, not after a 429, not when it failed); a failed
\* upstream operation is answered 500; and the stored counter counts the
\* requests whose increment went through, so a failure leaves it unchanged.
C13_IncrementedOnceAfterSuccess ==
  /\ \A r \in 1..MaxGatewayRequests :
       /\ gateway[r].upstream = "returned" => gateway[r].increments = 1
       /\ gateway[r].upstream # "returned" => gateway[r].increments = 0
       /\ gateway[r].upstream = "threw" => gateway[r].state = "500"
  /\ dailyRequests = Cardinality({r \in Tested : gateway[r].state = "200"})

\* C13 (witness): the upstream operation failed for one request and returned
\* for another: one 500, one 200, and the counter at 1
C13_Witness ==
  /\ dailyRequests = 1
  /\ \E r, q \in Tested :
       /\ gateway[r].upstream = "threw"
       /\ gateway[r].state = "500"
       /\ gateway[q].upstream = "returned"
       /\ gateway[q].state = "200"

\* C14: a request to the status endpoint is never answered 429, and no step
\* of it changes the stored counter of daily requests.
C14_StatusIsNotLimited ==
  /\ [](\A r \in 1..MaxGatewayRequests :
          gateway[r].endpoint = "status" =>
            /\ gateway[r].state \in {"authenticated", "200", "500"}
            /\ gateway[r].increments = 0)
  /\ [][\A r \in 1..MaxGatewayRequests :
          (gateway'[r].endpoint = "status" /\ gateway'[r] # gateway[r])
            => dailyRequests' = dailyRequests]_vars

\* C14 (witness): the status endpoint has answered a request that came with
\* the counter above the maximum
C14_Witness ==
  \E r \in 1..MaxGatewayRequests :
    /\ gateway[r].endpoint = "status"
    /\ gateway[r].state = "200"
    /\ gateway[r].seen > MaxDailyRequests


-----------------------------------------------------------------------------
(* Properties of getQuotes *)

RECURSIVE Flatten(_)
Flatten(ss) == IF ss = <<>> THEN <<>> ELSE Head(ss) \o Flatten(Tail(ss))

\* the symbol lists of the requests sent for one data source, in sending order
ChunksSentFor(dataSource) ==
  LET Sel(r) == r.dataSource = dataSource
      rs == SelectSeq(requests, Sel)
  IN [i \in DOMAIN rs |-> rs[i].symbols]

\* the symbols of one data source that are kept after filtering
KeptSymbols(dataSource) ==
  SelectSymbols(itemsToFetch, dataSource, getDataProvider(dataSource), call.user)

\* C2: for every data source, the requests sent to its provider carry
\* consecutive chunks of the kept symbols: no request is empty or carries more
\* than the provider's maximum number of symbols per request, and the chunks,
\* put one after the other, are the list of kept symbols (so every kept
\* symbol is sent in exactly one chunk).
C2_ChunksPartitionKeptSymbols ==
  pc # "idle" =>
    /\ \A i \in DOMAIN requests :
         /\ Len(requests[i].symbols) >= 1
         /\ Len(requests[i].symbols) <=
              MaximumNumberOfSymbolsPerRequest(requests[i].dataProvider)
         /\ requests[i].dataProvider = getDataProvider(requests[i].dataSource)
    /\ \A ds \in DataSources : Flatten(ChunksSentFor(ds)) = KeptSymbols(ds)

\* C2 (witness): the kept symbols of one provider went out in two requests,
\* the first of them full
C2_Witness ==
  /\ pc = "waiting"
  /\ Len(requests) = 2
  /\ requests[1].dataSource = requests[2].dataSource
  /\ Len(requests[1].symbols) =
       MaximumNumberOfSymbolsPerRequest(requests[1].dataProvider)
  /\ requests[1].symbols # requests[2].symbols


IsDerivedSymbol(symbol) == isDerivedCurrency(getCurrencyFromSymbol(symbol))
IsCurrencySymbol(symbol) == isCurrency(getCurrencyFromSymbol(symbol))

\* a request of the item's data source carries the item's symbol
SentToProvider(item) ==
  \E i \in DOMAIN requests :
    /\ requests[i].dataSource = item.dataSource
    /\ item.symbol \in Range(requests[i].symbols)

\* C15: no request carries the symbol of a derived currency; with
\* ENABLE_FEATURE_SUBSCRIPTION on and a user of subscription type Basic, a
\* request to a premium provider carries currency symbols only; and every
\* item to fetch whose symbol is a non-derived currency is sent to the
\* provider of its data source, whoever the user and whatever the provider.
C15_FilterOfSymbols ==
  pc # "idle" =>
    /\ \A i \in DOMAIN requests : \A s \in Range(requests[i].symbols) :
         ~IsDerivedSymbol(s)
    /\ (featureSubscription /\ call.user = "Basic") =>
         \A i \in DOMAIN requests :
           IsPremium(requests[i].dataProvider) =>
             \A s \in Range(requests[i].symbols) : IsCurrencySymbol(s)
    /\ \A j \in DOMAIN itemsToFetch :
         (IsCurrencySymbol(itemsToFetch[j].symbol)
            /\ ~IsDerivedSymbol(itemsToFetch[j].symbol))
           => SentToProvider(itemsToFetch[j])

\* C15 (witness): for a Basic user and with the feature on, the request to the
\* premium provider carries the currency symbol and not the other symbol that
\* was to be fetched from it
C15_Witness ==
  /\ pc = "waiting"
  /\ featureSubscription
  /\ call.user = "Basic"
  /\ Len(itemsToFetch) = 2
  /\ \A j \in DOMAIN itemsToFetch : IsPremium(itemsToFetch[j].dataSource)
  /\ \E j \in DOMAIN itemsToFetch : itemsToFetch[j].symbol = AAPL
  /\ Len(requests) = 1
  /\ requests[1].symbols = <<USDGBP>>
  /\ IsPremium(requests[1].dataProvider)

\* what redisCacheService.get answered for the quote key of an item
Answered(item) ==
  {r.str : r \in {x \in cacheReads :
                    x.key = getQuoteKey(item.dataSource, item.symbol)}}

CachedParseable(item) == \E str \in Answered(item) : parses(str)

\* the items that are fetched: those not answered from the cache
ExpectedItemsToFetch ==
  LET Miss(item) == ~(call.useCache /\ CachedParseable(item))
  IN SelectSeq(call.items, Miss)

CacheOrFetch ==
  /\ itemsToFetch = ExpectedItemsToFetch
  /\ ~call.useCache => cacheReads = {} /\ served = {}
  /\ call.useCache =>
       /\ \A i \in DOMAIN call.items :
            Answered(call.items[i]) =
              {cache[getQuoteKey(call.items[i].dataSource,
                                 call.items[i].symbol)].str}
              \/ pc # "waiting" \/ cacheWrites # {}
       /\ \A i \in DOMAIN call.items :
            CachedParseable(call.items[i]) =>
              \E sv \in served : sv.item = call.items[i]
                                 /\ parse(CHOOSE str \in Answered(sv.item) : TRUE)
                                      = sv.value

\* a provider answer that the callback has written to response[symbol]
WrittenByProvider(symbol) ==
  \E i \in DOMAIN requests :
    /\ requests[i].state \in {"persisting", "done"}
    /\ \/ symbol \in DOMAIN requests[i].result \ SkippedSymbols
       \/ \E d \in DOMAIN DERIVED_CURRENCIES :
            /\ symbol = Template(DEFAULT_CURRENCY, DERIVED_CURRENCIES[d].currency)
            /\ Template(DEFAULT_CURRENCY, DERIVED_CURRENCIES[d].rootCurrency)
                 \in DOMAIN requests[i].result

\* C3 as stated: an item is fetched if and only if useCache is false or no
\* parseable value is cached under its quote key; without useCache the cache
\* is not read; and a value served from the cache is the value returned for
\* its symbol.
C3_ServedValueIsReturned ==
  pc # "idle" =>
    /\ CacheOrFetch
    /\ pc = "resolved" =>
         \A sv \in served :
           /\ sv.item.symbol \in DOMAIN response
           /\ response[sv.item.symbol] = sv.value

\* C3 (amended): as above, but the value served from the cache is the value
\* returned for its symbol unless another item with the same symbol was served
\* from the cache too, or a provider answered for that symbol (or for the root
\* currency it derives from) under another item.
C3_CacheOrFetch ==
  pc # "idle" =>
    /\ CacheOrFetch
    /\ \A sv \in served : sv.item.symbol \in DOMAIN response
    /\ pc = "resolved" =>
         \A sv \in served :
           \/ response[sv.item.symbol] = sv.value
           \/ \E other \in served : /\ other.item # sv.item
                                    /\ other.item.symbol = sv.item.symbol
                                    /\ response[sv.item.symbol] = other.value
           \/ WrittenByProvider(sv.item.symbol)

\* C3 (witness): a call with useCache that met an unparseable entry, fetched
\* that item, and served another item from the cache
C3_Witness ==
  /\ pc = "resolved"
  /\ call.useCache
  /\ \E r \in cacheReads : r.str = Garbage
  /\ served # {}
  /\ itemsToFetch # <<>>
  /\ \A sv \in served : response[sv.item.symbol] = sv.value


\* the requests whose answer the callback has merged
Answered_Requests ==
  {i \in DOMAIN requests : requests[i].state \in {"persisting", "done"}}

\* C4: every quote a provider returned for a symbol that is neither a derived
\* currency symbol nor USX has been written to the cache under the quote key
\* of (the data source of the request, the symbol) with CACHE_QUOTES_TTL,
\* with and without useCache; no cache write of getQuotes, and no entry it
\* left in the cache, is without that time-to-live.
C4_ProviderQuotesCachedWithTTL ==
  /\ \A i \in Answered_Requests :
       \A symbol \in DOMAIN requests[i].result \ SkippedSymbols :
         [key |-> getQuoteKey(requests[i].dataSource, symbol),
          value |-> requests[i].result[symbol],
          ttl |-> CACHE_QUOTES_TTL] \in cacheWrites
  /\ \A w \in cacheWrites :
       /\ w.ttl = CACHE_QUOTES_TTL
       /\ cache[w.key].ttl = CACHE_QUOTES_TTL
       /\ cache[w.key].str.kind = "json"
  /\ \A k \in QuoteKeys :
       cache[k].ttl # CACHE_QUOTES_TTL =>
         cache[k].str \in ForeignStrings \cup {NoEntry}

\* C4 (witness): a call without useCache has cached the quote of a provider
C4_Witness ==
  /\ pc = "resolved"
  /\ ~call.useCache
  /\ \E i \in Answered_Requests :
       \E symbol \in DOMAIN requests[i].result \ SkippedSymbols :
         cache[getQuoteKey(requests[i].dataSource, symbol)] =
           Entry(stringify(requests[i].result[symbol]), CACHE_QUOTES_TTL)

\* C5: with ENABLE_FEATURE_SUBSCRIPTION, the response returned to a Basic
\* user holds no quote of a premium data provider for a symbol that is not a
\* currency, whatever calls other users made before.
C5_NoPremiumQuoteForBasic ==
  (pc = "resolved" /\ featureSubscription /\ call.user = "Basic") =>
    \A symbol \in DOMAIN response :
      ~isCurrency(getCurrencyFromSymbol(symbol)) =>
        ~IsPremium(getDataProvider(response[symbol].dataSource))

\* C6 as stated: for every root quote a provider returned, the response holds
\* the derived currency at that quote's price times the factor, with the
\* derived currency code and market state 'open'.
C6_DerivedFromEveryRootQuote ==
  pc = "resolved" =>
    \A i \in DOMAIN requests : \A d \in DOMAIN DERIVED_CURRENCIES :
      RootSymbol(d) \in DOMAIN requests[i].result =>
        /\ DerivedSymbol(d) \in DOMAIN response
        /\ response[DerivedSymbol(d)].marketPrice =
             Num(requests[i].result[RootSymbol(d)].marketPrice.val
                   * DERIVED_CURRENCIES[d].factor)
        /\ response[DerivedSymbol(d)].currency = DERIVED_CURRENCIES[d].currency
        /\ response[DerivedSymbol(d)].marketState = "open"

\* C6 (amended): when a provider returned a quote for a root currency symbol,
\* the response holds a root quote that a provider returned (the one written
\* last) and the derived currency at the price of that root quote times the
\* factor, with the derived currency code, market state 'open' and the other
\* fields of that root quote.
C6_DerivedFromRootQuote ==
  pc = "resolved" =>
    \A d \in DOMAIN DERIVED_CURRENCIES :
      (\E i \in DOMAIN requests : RootSymbol(d) \in DOMAIN requests[i].result) =>
        /\ RootSymbol(d) \in DOMAIN response
        /\ DerivedSymbol(d) \in DOMAIN response
        /\ \E i \in DOMAIN requests :
             /\ RootSymbol(d) \in DOMAIN requests[i].result
             /\ response[RootSymbol(d)] = requests[i].result[RootSymbol(d)]
        /\ response[DerivedSymbol(d)] =
             [response[RootSymbol(d)] EXCEPT
                !.currency = DERIVED_CURRENCIES[d].currency,
                !.marketPrice = Num(response[RootSymbol(d)].marketPrice.val
                                      * DERIVED_CURRENCIES[d].factor),
                !.marketState = "open"]

\* C6 (witness): a provider returned a closed root quote together with its own
\* entry for the derived currency, and the response holds the derived
\* currency as computed from the root quote
C6_Witness ==
  /\ pc = "resolved"
  /\ \E i \in DOMAIN requests :
       /\ USDGBP \in DOMAIN requests[i].result
       /\ USDGBp \in DOMAIN requests[i].result
       /\ requests[i].result[USDGBP].marketState = "closed"
       /\ requests[i].result[USDGBP].marketPrice = Num(2)
  /\ response[USDGBp].marketPrice = Num(200)
  /\ response[USDGBp].marketState = "open"


\* the record that updateMany gets for a quote of a symbol
RecordOf(symbol, q) ==
  [symbol |-> symbol, dataSource |-> q.dataSource,
   marketPrice |-> q.marketPrice, state |-> "INTRADAY"]

HandedRecordsAreIntraday ==
  \A u \in updateManyData :
    /\ u.data.state = "INTRADAY"
    /\ isNumber(u.data.marketPrice)
    /\ u.data.marketPrice.val > 0
    /\ u.quote.marketState = "open"
    /\ u.data = RecordOf(u.data.symbol, u.quote)

\* C7 as stated: every record handed to updateMany has state 'INTRADAY', a
\* numeric marketPrice above 0 and is made from a quote with market state
\* 'open'; and when getQuotes resolves, every open quote with a numeric
\* marketPrice above 0 that a provider returned has been handed to updateMany.
C7_EveryFetchedQuotePersisted ==
  /\ HandedRecordsAreIntraday
  /\ pc = "resolved" =>
       \A i \in DOMAIN requests : \A symbol \in DOMAIN requests[i].result :
         Persistable(requests[i].result[symbol]) =>
           \E u \in updateManyData :
             u.data = RecordOf(symbol, requests[i].result[symbol])

\* C7 (amended): as above, for the quotes a provider returned for symbols that
\* are neither derived currency symbols nor USX (the entries a provider
\* returns for those are dropped and never handed to updateMany).
C7_IntradayPersistence ==
  /\ HandedRecordsAreIntraday
  /\ pc = "resolved" =>
       \A i \in DOMAIN requests :
         \A symbol \in DOMAIN requests[i].result \ SkippedSymbols :
           Persistable(requests[i].result[symbol]) =>
             \E u \in updateManyData :
               u.data = RecordOf(symbol, requests[i].result[symbol])

\* C7 (witness): the call fetched an open quote above 0 and a quote that is
\* closed or at 0; only the first was handed to updateMany
C7_Witness ==
  /\ pc = "resolved"
  /\ \E i, j \in DOMAIN requests :
       \E s \in DOMAIN requests[i].result \ SkippedSymbols :
         \E t \in DOMAIN requests[j].result \ SkippedSymbols :
           /\ Persistable(requests[i].result[s])
           /\ ~Persistable(requests[j].result[t])
           /\ s # t
           /\ \E u \in updateManyData : u.data.symbol = s
           /\ ~\E u \in updateManyData : u.data.symbol = t

\* the quotes served from the cache for a symbol
ServedFor(symbol) == {sv.value : sv \in {x \in served : x.item.symbol = symbol}}

\* the quotes that providers returned for a symbol, and those computed for a
\* derived currency from a returned root quote
FetchedFor(symbol) ==
  {requests[i].result[symbol] :
          i \in {j \in Answered_Requests :
                   symbol \in DOMAIN requests[j].result \ SkippedSymbols}}
  \cup UNION { {[requests[i].result[RootSymbol(d)] EXCEPT
                   !.currency = DERIVED_CURRENCIES[d].currency,
                   !.marketPrice =
                      Num(requests[i].result[RootSymbol(d)].marketPrice.val
                            * DERIVED_CURRENCIES[d].factor),
                   !.marketState = "open"] :
                  i \in {j \in Answered_Requests :
                           RootSymbol(d) \in DOMAIN requests[j].result}} :
               d \in {e \in DOMAIN DERIVED_CURRENCIES : DerivedSymbol(e) = symbol} }

\* the quotes that the call obtained for a symbol, the fixed USX quote included
QuotesFor(symbol) ==
  ServedFor(symbol) \cup FetchedFor(symbol)
  \cup (IF symbol = USDUSX /\ hasUSX(call.items) THEN {USXQuote} ELSE {})

ResolvedAfterAll ==
  pc = "resolved" => \A i \in DOMAIN requests : requests[i].state = "done"

C11_ProviderFailureIsTolerated ==
  (\E i \in DOMAIN requests : requests[i].state = "rejected") => pc # "rejected"


\* C16: when the items of a call hold `${DEFAULT_CURRENCY}USX`, the response
\* returned maps that symbol to a quote of currency USX, marketPrice 100 and
\* marketState open, whatever the cache holds and the providers answer.
C16_USXQuoteIsFixed ==
  (pc = "resolved" /\ hasUSX(call.items)) =>
    /\ USDUSX \in DOMAIN response
    /\ response[USDUSX].currency = "USX"
    /\ response[USDUSX].marketPrice = Num(100)
    /\ response[USDUSX].marketState = "open"


\* the symbols of the items of the call
RequestedSymbols == {call.items[i].symbol : i \in DOMAIN call.items}

\* C22: when the items of a call hold the symbol of a derived currency and the
\* symbol of its root currency, and the response returned holds a quote for
\* the root currency, it holds a quote for the derived currency too.
C22_DerivedComesWithRoot ==
  pc = "resolved" =>
    \A d \in DOMAIN DERIVED_CURRENCIES :
      (/\ DerivedSymbol(d) \in RequestedSymbols
       /\ RootSymbol(d) \in RequestedSymbols
       /\ RootSymbol(d) \in DOMAIN response)
        => DerivedSymbol(d) \in DOMAIN response


\* the requests of the call whose answer holds a symbol
AnsweredFor(symbol) ==
  {i \in DOMAIN requests :
     /\ requests[i].state \in {"persisting", "done"}
     /\ symbol \in DOMAIN requests[i].result}

\* the last of some requests in the order in which they were sent
LastSent(I) == CHOOSE i \in I : \A j \in I : j <= i

\* C23: the response returned does not depend on the order in which the
\* provider requests complete: it is the response that their completion in
\* the order of sending gives, where each symbol a provider answered for has
\* the quote of the last request that holds it and each derived currency the
\* quote computed from the last request that holds its root; also when two
\* items have the same symbol under different data sources.
C23_ResponseIndependentOfOrder ==
  pc = "resolved" =>
    /\ \A symbol \in Symbols \ SkippedSymbols :
         AnsweredFor(symbol) # {} =>
           /\ symbol \in DOMAIN response
           /\ response[symbol] =
                requests[LastSent(AnsweredFor(symbol))].result[symbol]
    /\ \A d \in DOMAIN DERIVED_CURRENCIES :
         AnsweredFor(RootSymbol(d)) # {} =>
           LET root == requests[LastSent(AnsweredFor(RootSymbol(d)))]
                         .result[RootSymbol(d)]
           IN /\ DerivedSymbol(d) \in DOMAIN response
              /\ response[DerivedSymbol(d)] =
                   [root EXCEPT
                      !.currency = DERIVED_CURRENCIES[d].currency,
                      !.marketPrice = Num(root.marketPrice.val
                                            * DERIVED_CURRENCIES[d].factor),
                      !.marketState = "open"]


-----------------------------------------------------------------------------
(* Properties of the gateway and of getHistoricalRaw *)

\* getHistoricalRaw calls, everything else at rest
HistoricalInit == QuotesAtRest /\ InitGateway /\ InitHistorical /\ InitSearch /\ InitOthers

HistoricalNext ==
  \/ GetHistoricalRawCall /\ UNCHANGED <<qvars, gvars, svars, xvars>>
  \/ \E i \in DOMAIN historical.promises : HistoricalResolve(i) /\ UNCHANGED <<qvars, gvars, svars, xvars>>
  \/ \E i \in DOMAIN historical.promises : HistoricalReject(i) /\ UNCHANGED <<qvars, gvars, svars, xvars>>
  \/ GetHistoricalRawReturn /\ UNCHANGED <<qvars, gvars, svars, xvars>>

HistoricalSpec == HistoricalInit /\ [][HistoricalNext]_vars


\* the derived currencies whose symbol the call asks for under the data
\* source for exchange rates
RequestedDerived ==
  {d \in DOMAIN DERIVED_CURRENCIES :
     hasCurrency(historical.assetProfileIdentifiers, DerivedSymbol(d))}

\* the provider requests of the call for a symbol
RequestsFor(symbol) ==
  {i \in DOMAIN historical.promises :
     /\ historical.promises[i].requested
     /\ historical.promises[i].symbol = symbol}

\* the dates of a series that have a numeric marketPrice, at factor times it
Scaled(series, factor) ==
  Series([date \in {d \in DOMAIN series.at : isNumber(series.at[d].marketPrice)} |->
            [marketPrice |-> Num(factor * series.at[date].marketPrice.val)]])

DerivedNotRequestedRootIs(d) ==
  /\ RequestsFor(DerivedSymbol(d)) = {}
  /\ \E i \in RequestsFor(RootSymbol(d)) :
       historical.promises[i].dataSource = getDataSourceForExchangeRates

\* C9 as stated: a derived currency symbol asked for under the data source
\* for exchange rates is not requested from a provider, its root symbol is
\* requested under that data source instead, and the result maps the derived
\* symbol to the dates of that root series that have a numeric marketPrice,
\* each at factor times the root price.
C9_DerivedFromExchangeRateSeries ==
  historical.pc # "idle" =>
    \A d \in RequestedDerived :
      /\ DerivedNotRequestedRootIs(d)
      /\ historical.pc = "returned" =>
           /\ DerivedSymbol(d) \in DOMAIN historical.result
           /\ \A i \in RequestsFor(RootSymbol(d)) :
                historical.promises[i].dataSource = getDataSourceForExchangeRates =>
                  historical.result[DerivedSymbol(d)] =
                    Scaled(historical.promises[i].data,
                           DERIVED_CURRENCIES[d].factor)

\* What getHistoricalRaw does for a derived currency (C9): the series that the
\* derived symbol is computed from is the first series returned for the root
\* symbol in the order of the requests; it is the series of the data source
\* for exchange rates unless the root symbol was also asked for under
\* another data source earlier in the list.
C9_DerivedFromFirstRootSeries ==
  historical.pc # "idle" =>
    \A d \in RequestedDerived :
      /\ DerivedNotRequestedRootIs(d)
      /\ historical.pc = "returned" =>
           /\ DerivedSymbol(d) \in DOMAIN historical.result
           /\ \E i \in RequestsFor(RootSymbol(d)) :
                /\ \A j \in RequestsFor(RootSymbol(d)) : i <= j
                /\ historical.result[DerivedSymbol(d)] =
                     Scaled(historical.promises[i].data,
                            DERIVED_CURRENCIES[d].factor)
           /\ (\A i \in RequestsFor(RootSymbol(d)) :
                 historical.promises[i].dataSource = getDataSourceForExchangeRates)
                => \A i \in RequestsFor(RootSymbol(d)) :
                     historical.result[DerivedSymbol(d)] =
                       Scaled(historical.promises[i].data,
                              DERIVED_CURRENCIES[d].factor)

\* C9 (witness): the derived symbol was asked for, the root series came with a
\* priced day and a day without a price, and the result has the priced day only
C9_Witness ==
  /\ historical.pc = "returned"
  /\ RequestedDerived # {}
  /\ \E i \in RequestsFor(USDGBP) :
       /\ historical.promises[i].data.defined
       /\ DOMAIN historical.promises[i].data.at = {1, 2}
       /\ historical.promises[i].data.at[1] = [marketPrice |-> Num(3)]
       /\ historical.promises[i].data.at[2] = [marketPrice |-> NoPrice]
  /\ historical.result[USDGBp] = Series([d \in {1} |-> [marketPrice |-> Num(300)]])

\* the identifiers of the call that the provider of their data source cannot
\* handle
NotHandled ==
  {id \in Range(historical.assetProfileIdentifiers) :
     ~canHandle(getDataProvider(id.dataSource), id.symbol)}

\* the identifiers of the call after the derived currencies are replaced
Replaced == Range(ReplaceDerived(historical.assetProfileIdentifiers, 1))

\* every pair (dataSource, symbol) has at most one promise, every pair of the
\* call that its provider can handle has one, each goes to the provider of
\* its data source, and none is for a symbol that provider cannot handle
OnePromisePerPair ==
  /\ \A i, j \in DOMAIN historical.promises :
       (/\ historical.promises[i].dataSource = historical.promises[j].dataSource
        /\ historical.promises[i].symbol = historical.promises[j].symbol)
         => i = j
  /\ \A id \in Replaced :
       canHandle(getDataProvider(id.dataSource), id.symbol) =>
         \E i \in DOMAIN historical.promises :
           /\ historical.promises[i].dataSource = id.dataSource
           /\ historical.promises[i].symbol = id.symbol
  /\ \A i \in DOMAIN historical.promises :
       /\ historical.promises[i].dataProvider =
            getDataProvider(historical.promises[i].dataSource)
       /\ canHandle(historical.promises[i].dataProvider,
                    historical.promises[i].symbol)
       /\ historical.promises[i].requested =
            (historical.promises[i].symbol # USDUSX)

-----------------------------------------------------------------------------
(* search *)

\* the data-source mappings that onModuleInit may have read
Mappings ==
  {[n \in {} |-> ""], [n \in {"YAHOO"} |-> "FINANCIAL_MODELING_PREP"]}

SearchInit ==
  /\ featureSubscription \in BOOLEAN
  /\ dataProviderMapping \in Mappings
  /\ QuotesIdle
  /\ InitGateway
  /\ InitHistorical
  /\ InitOthers
  /\ \E config \in Configurations : search = [config |-> config, at |-> NoSearch]

SearchNext ==
  \/ SearchCall /\ UNCHANGED <<qvars, gvars, hvars, xvars>>
  \/ \E i \in DOMAIN search.at.promises : SearchResolve(i) /\ UNCHANGED <<qvars, gvars, hvars, xvars>>
  \/ \E i \in DOMAIN search.at.promises : SearchReject(i) /\ UNCHANGED <<qvars, gvars, hvars, xvars>>
  \/ SearchReturn /\ UNCHANGED <<qvars, gvars, hvars, xvars>>

SearchSpec == SearchInit /\ [][SearchNext]_vars

\* the data sources of the user of the call, as getDataSources returns them
SearchDataSources == getDataSources(search.config, FALSE, search.at.user)

OneRequestPerDataSource ==
  /\ Len(search.at.promises) = Len(SearchDataSources)
  /\ \A i \in DOMAIN search.at.promises :
       /\ search.at.promises[i].dataSource = SearchDataSources[i]
       /\ search.at.promises[i].dataProvider =
            getDataProvider(SearchDataSources[i])

\* the items of all providers in the order of the requests, each with the
\* position it has in that list
ProviderItems ==
  LET n == Len(search.at.promises)
      ItemsOf(i) == IF search.at.promises[i].answer.defined
                    THEN search.at.promises[i].answer.items ELSE <<>>
  IN UNION {{[request |-> i, index |-> k, item |-> ItemsOf(i)[k]] :
               k \in DOMAIN ItemsOf(i)} : i \in 1..n}

Occurrences(seq, x) == Cardinality({i \in DOMAIN seq : seq[i] = x})

OrderedByName(items) ==
  \A i, j \in DOMAIN items :
    i < j => localeCompare(toLowerCase(items[i].name),
                           toLowerCase(items[j].name)) <= 0

\* C10 as stated: a search with a query of at least 2 characters sends one
\* request to the data provider of every data source of the user, and returns
\* the items of the providers that have a currency, as the providers gave
\* them, ordered by lower-case name.
C10_ReturnsProviderItems ==
  search.at.pc = "returned" /\ search.at.query >= 2 =>
    /\ OneRequestPerDataSource
    /\ OrderedByName(search.at.items)
    /\ \A item \in UNION {LookupPool(p) : p \in DataSources} :
         Occurrences(search.at.items, item) =
           Cardinality({x \in ProviderItems :
                          x.item = item /\ item.currency # "undefined"})

\* what an item of a provider is returned as
Returned(item) ==
  [symbol |-> item.symbol,
   currency |-> item.currency,
   assetSubClass |-> item.assetSubClass,
   name |-> IF /\ item.assetSubClass = "CRYPTOCURRENCY"
               /\ search.at.user.isExperimentalFeatures
               /\ Len(item.name) >= 4
               /\ SubSeq(item.name, Len(item.name) - 3, Len(item.name)) =
                    <<" ", "U", "S", "D">>
            THEN SubSeq(item.name, 1, Len(item.name) - 4)
            ELSE item.name,
   dataProviderInfo |->
     [isPremium |-> /\ featureSubscription
                    /\ search.at.user.subscription # "Premium"
                    /\ item.dataProviderInfo.isPremium,
      dataSource |-> IF featureSubscription THEN "undefined"
                     ELSE item.dataProviderInfo.dataSource,
      name |-> IF featureSubscription THEN "undefined"
               ELSE item.dataProviderInfo.name,
      url |-> IF featureSubscription THEN "undefined"
              ELSE item.dataProviderInfo.url]]

\* C10 (amended): the returned items are the items of the providers that have
\* a currency, each with its dataProviderInfo rewritten (isPremium is false
\* unless subscriptions are enabled and the user is not Premium; dataSource,
\* name and url are removed when subscriptions are enabled) and, for a
\* cryptocurrency and a user with experimental features, without a trailing
\* " USD" in its name; they are ordered by the lower-case name they are
\* returned with.
C10_ReturnsRewrittenProviderItems ==
  search.at.pc = "returned" /\ search.at.query >= 2 =>
    /\ OneRequestPerDataSource
    /\ OrderedByName(search.at.items)
    /\ \A item \in {Returned(x.item) : x \in ProviderItems} \cup
                   Range(search.at.items) :
         Occurrences(search.at.items, item) =
           Cardinality({x \in ProviderItems :
                          /\ Returned(x.item) = item
                          /\ x.item.currency # "undefined"})

\* C10 (witness): two providers answered, an item without a currency was
\* dropped, a cryptocurrency name lost its " USD", and the order of the
\* returned items is not the order in which the providers gave them
C10_Witness ==
  /\ search.at.pc = "returned"
  /\ Len(search.at.promises) >= 2
  /\ \E x \in ProviderItems : x.item.currency = "undefined"
  /\ \E x \in ProviderItems :
       /\ x.item.currency # "undefined"
       /\ x.item.name # Returned(x.item).name
  /\ \E x, y \in ProviderItems :
       /\ x.request < y.request
       /\ x.item.currency # "undefined"
       /\ y.item.currency # "undefined"
       /\ \E i, j \in DOMAIN search.at.items :
            /\ i < j
            /\ search.at.items[i] = Returned(y.item)
            /\ search.at.items[j] = Returned(x.item)
            /\ ~OrderedByName(<<search.at.items[j], search.at.items[i]>>)


-----------------------------------------------------------------------------
(* getHistorical *)

MarketDataInit == QuotesAtRest /\ InitGateway /\ InitHistorical /\ InitSearch /\ InitOthers

MarketDataNext ==
  \/ GetHistoricalCall /\ UNCHANGED <<qvars, gvars, hvars, svars, avars, pvars, dvars>>
  \/ QueryReturns /\ UNCHANGED <<qvars, gvars, hvars, svars, avars, pvars, dvars>>
  \/ QueryThrows /\ UNCHANGED <<qvars, gvars, hvars, svars, avars, pvars, dvars>>
  \/ GetHistoricalEnd /\ UNCHANGED <<qvars, gvars, hvars, svars, avars, pvars, dvars>>

MarketDataSpec == MarketDataInit /\ [][MarketDataNext]_vars

\* C18: getHistorical never rejects. When the item list is empty or from or
\* to is not a valid date it returns the empty response and has sent no query
\* to the database; when the query fails it returns the empty response; when
\* the query answers it returns the rows grouped by symbol and date.
C18_GetHistoricalNeverRejects ==
  /\ marketData.pc \in {"idle", "querying", "returned"}
  /\ marketData.pc # "idle" =>
       (ReturnsAtOnce(marketData.aItems, marketData.from, marketData.to)
          <=> marketData.query = "none")
  /\ marketData.query = "none" =>
       marketData.pc # "querying" /\ marketData.response = EmptyResponse
  /\ marketData.query = "failed" =>
       marketData.pc = "returned" /\ marketData.response = EmptyResponse
  /\ marketData.query = "answered" =>
       /\ marketData.pc = "returned"
       /\ DOMAIN marketData.response =
            {marketData.rows[i].symbol : i \in DOMAIN marketData.rows}
       /\ \A i \in DOMAIN marketData.rows :
            marketData.rows[i].date
              \in DOMAIN marketData.response[marketData.rows[i].symbol]

\* C18 (witness): a call with items and valid dates whose query failed has
\* returned the empty response
C18_Witness ==
  /\ marketData.pc = "returned"
  /\ ~isEmpty(marketData.aItems)
  /\ isValid(marketData.from)
  /\ isValid(marketData.to)
  /\ marketData.query = "failed"
  /\ marketData.response = EmptyResponse

-----------------------------------------------------------------------------
(* getHistoricalRaw and getAssetProfiles: a failed provider request *)

\* one call is followed at a time: the two operations share no state
ProfilesInit == QuotesAtRest /\ InitGateway /\ InitHistorical /\ InitSearch /\ InitOthers

ProfilesNext ==
  \/ /\ assetProfiles.pc = "idle"
     /\ GetHistoricalRawCall
     /\ UNCHANGED <<qvars, gvars, svars, xvars>>
  \/ \E i \in DOMAIN historical.promises :
       HistoricalResolve(i) /\ UNCHANGED <<qvars, gvars, svars, xvars>>
  \/ \E i \in DOMAIN historical.promises :
       HistoricalReject(i) /\ UNCHANGED <<qvars, gvars, svars, xvars>>
  \/ GetHistoricalRawReturn /\ UNCHANGED <<qvars, gvars, svars, xvars>>
  \/ /\ historical.pc = "idle"
     /\ GetAssetProfilesCall
     /\ UNCHANGED <<qvars, gvars, hvars, svars, mvars, pvars, dvars>>
  \/ \E i \in DOMAIN assetProfiles.promises :
       ProfileResolve(i) /\ UNCHANGED <<qvars, gvars, hvars, svars, mvars, pvars, dvars>>
  \/ \E i \in DOMAIN assetProfiles.promises :
       ProfileReject(i) /\ UNCHANGED <<qvars, gvars, hvars, svars, mvars, pvars, dvars>>
  \/ GetAssetProfilesReturn /\ UNCHANGED <<qvars, gvars, hvars, svars, mvars, pvars, dvars>>
  \/ GetAssetProfilesEnd /\ UNCHANGED <<qvars, gvars, hvars, svars, mvars, pvars, dvars>>

ProfilesSpec == ProfilesInit /\ [][ProfilesNext]_vars

RejectedPromises(promises) ==
  {i \in DOMAIN promises : promises[i].state = "rejected"}

\* a call is rejected exactly when one of its provider requests has failed,
\* with the error of a failed request, and then nothing is returned
RejectedWithError ==
  /\ (historical.pc = "rejected")
       <=> (RejectedPromises(historical.promises) # {})
  /\ (historical.pc = "rejected") =>
       (/\ historical.error \in RejectedPromises(historical.promises)
        /\ historical.result = EmptyResponse)
  /\ (historical.pc # "rejected") => (historical.error = NoError)
  /\ (assetProfiles.pc = "rejected")
       <=> (RejectedPromises(assetProfiles.promises) # {})
  /\ (assetProfiles.pc = "rejected") =>
       (/\ assetProfiles.outcome.kind = "error"
        /\ assetProfiles.outcome.error
             \in RejectedPromises(assetProfiles.promises)
        /\ assetProfiles.outcome.value = EmptyResponse)
  /\ (assetProfiles.pc # "rejected") =>
       (assetProfiles.outcome.kind # "error")

\* the error of a rejected call is the first one: later steps leave it
FirstErrorStays ==
  /\ (historical.pc = "rejected") =>
       (/\ historical'.pc = "rejected"
        /\ historical'.error = historical.error)
  /\ (assetProfiles.pc = "rejected" /\ assetProfiles'.pc # "idle") =>
       (assetProfiles'.outcome = assetProfiles.outcome)

\* C19: getHistoricalRaw and getAssetProfiles reject exactly when a provider
\* request has failed, at the step in which the first one fails and whatever
\* the state of the other requests, with the error of that request; the
\* caller of a rejected call gets the error and no result.
C19_RejectsOnFirstFailure == []RejectedWithError /\ [][FirstErrorStays]_vars

\* C19 (witness): the first request of a getAssetProfiles call has answered
\* and set its entry of the response, the second has failed, and the caller
\* has the error of the second and no response
C19_Witness ==
  /\ assetProfiles.pc = "rejected"
  /\ Len(assetProfiles.promises) = 2
  /\ assetProfiles.promises[1].state = "fulfilled"
  /\ assetProfiles.promises[2].state = "rejected"
  /\ assetProfiles.response # EmptyResponse
  /\ assetProfiles.outcome = [NoOutcome EXCEPT !.kind = "error", !.error = 2]

-----------------------------------------------------------------------------
(* getDataProvider *)

ProviderInit ==
  /\ featureSubscription = FALSE
  /\ dataProviderMapping \in ProviderMappings
  /\ QuotesIdle
  /\ InitGateway
  /\ InitHistorical
  /\ InitSearch
  /\ InitOthers

ProviderNext ==
  \/ GetDataProviderCall /\ UNCHANGED <<qvars, gvars, hvars, svars, mvars, avars, dvars>>

ProviderSpec == ProviderInit /\ [][ProviderNext]_vars

\* the provider that the claim names for a data source
MappedOrNamed(name) ==
  IF name \in DOMAIN dataProviderMapping /\ dataProviderMapping[name] \in DataSources
  THEN dataProviderMapping[name]
  ELSE IF name \in DataSources THEN name
  ELSE NoProvider

\* C20: getDataProvider(name) returns the registered provider that the
\* mapping assigns to name, when there is one, otherwise the registered
\* provider called name, and throws 'No data provider has been found.' when
\* there is neither.
C20_ReturnsMappedOrNamed ==
  lookup # NoLookup => lookup.result = MappedOrNamed(lookup.providerName)


-----------------------------------------------------------------------------
(* getDataSources *)

DataSourcesInit ==
  /\ QuotesAtRest
  /\ InitGateway
  /\ InitHistorical
  /\ InitOthers
  /\ \E config \in DataSourceConfigurations :
       search = [config |-> config, at |-> NoSearch]

DataSourcesNext ==
  \/ GetDataSourcesCall /\ UNCHANGED <<qvars, gvars, hvars, svars, mvars, avars, pvars>>

DataSourcesSpec == DataSourcesInit /\ [][DataSourcesNext]_vars

\* the user is not an ADMIN, was created before 2025-03-23, and
\* DATA_SOURCES_LEGACY is not empty
LegacyUser ==
  /\ sources.user.role # "ADMIN"
  /\ sources.user.createdBefore
  /\ search.config.DATA_SOURCES_LEGACY # <<>>

GhostfolioAppended == sources.includeGhostfolio \/ search.config.ghostfolioApiKey

\* C21: the list getDataSources returns is sorted; it holds the data sources
\* of DATA_SOURCES_LEGACY when the user is not an ADMIN, was created before
\* 2025-03-23 and DATA_SOURCES_LEGACY is not empty, and those of DATA_SOURCES
\* otherwise; and it holds GHOSTFOLIO once more than that list exactly when
\* includeGhostfolio is true or the Ghostfolio API key is set.
C21_SortedLegacyOrCurrent ==
  sources.called =>
    LET base == IF LegacyUser THEN search.config.DATA_SOURCES_LEGACY
                ELSE search.config.DATA_SOURCES
    IN /\ \A i, j \in DOMAIN sources.dataSources :
            i < j => <<sources.dataSources[i], sources.dataSources[j]>>
                       \in DataSourceOrder
       /\ \A ds \in DataSources :
            Occurrences(sources.dataSources, ds) =
              Occurrences(base, ds) +
                (IF ds = "GHOSTFOLIO" /\ GhostfolioAppended THEN 1 ELSE 0)

\* C21 (witness): for a user created before 2025-03-23 who is not an ADMIN
\* the unsorted DATA_SOURCES_LEGACY came back sorted, with GHOSTFOLIO added
\* for includeGhostfolio alone
C21_Witness ==
  /\ sources.called
  /\ LegacyUser
  /\ sources.includeGhostfolio
  /\ ~search.config.ghostfolioApiKey
  /\ search.config.DATA_SOURCES_LEGACY = <<"YAHOO", "FINANCIAL_MODELING_PREP">>
  /\ search.config.DATA_SOURCES # search.config.DATA_SOURCES_LEGACY
  /\ sources.dataSources = <<"FINANCIAL_MODELING_PREP", "GHOSTFOLIO", "YAHOO">>

=============================================================================
